---- MODULE Spec2Model ----
(***************************************************************************)
(* Constraint validation engine of spine-validation-ts: validate(schema,   *)
(* message) runs nine validators in a fixed order, each appending to one   *)
(* violation list.  A run of validate is modelled as a state machine with  *)
(* one action per validator; the validators, the expression evaluator and *)
(* the range parser are operators translated from the TypeScript source.   *)
(***************************************************************************)
EXTENDS Integers, Sequences, FiniteSets, TLC

\* Longest repeated field (list) of a message under validation.
MaxLen == 3

(***************************************************************************)
(* JavaScript values.  Every runtime value is a tagged record, so that     *)
(* typeof, truthiness and === can be modelled as the language does them.   *)
(***************************************************************************)
Undefined == [t |-> "undefined"]
Str(s) == [t |-> "string", s |-> s]
Num(n) == [t |-> "number", n |-> n]
Big(n) == [t |-> "bigint", n |-> n]
Bool(b) == [t |-> "boolean", b |-> b]
Bytes(n) == [t |-> "bytes", len |-> n]
Arr(xs) == [t |-> "array", xs |-> xs]
\* A map field is a plain object; `entries` is Object.entries order.
Obj(es) == [t |-> "object", entries |-> es]
Msg(typeName, fields) == [t |-> "message", typeName |-> typeName, f |-> fields]

\* !value is FALSE exactly for the truthy values.
Truthy(v) ==
    CASE v.t = "undefined" -> FALSE
      [] v.t = "string" -> v.s # ""
      [] v.t = "number" -> v.n # 0
      [] v.t = "bigint" -> v.n # 0
      [] v.t = "boolean" -> v.b
      [] OTHER -> TRUE

\* typeof value
TypeOf(v) ==
    CASE v.t \in {"undefined", "string", "number", "bigint", "boolean"} -> v.t
      [] OTHER -> "object"

\* value === 0 : only a number equals the number 0 (0n === 0 is false).
StrictEqualsZero(v) == v.t = "number" /\ v.n = 0

\* String(value) for the values placed in placeholders and paths.
StringOf(v) ==
    CASE v.t = "undefined" -> "undefined"
      [] v.t = "string" -> v.s
      [] v.t \in {"number", "bigint"} -> ToString(v.n)
      [] v.t = "boolean" -> IF v.b THEN "true" ELSE "false"
      [] OTHER -> "[object Object]"


(***************************************************************************)
(* Sequence helpers.                                                       *)
(***************************************************************************)
RECURSIVE Flatten(_)
Flatten(ss) == IF ss = <<>> THEN <<>> ELSE Head(ss) \o Flatten(Tail(ss))

\* All sequences over S of length 0..n.
SeqsUpTo(S, n) == UNION {[1..k -> S] : k \in 0..n}

\* s.includes(sub)
Includes(s, sub) ==
    \E i \in 1..(Len(s) - Len(sub) + 1) : SubSeq(s, i, i + Len(sub) - 1) = sub

(***************************************************************************)
(* Option registry.  The source holds two registries: the one that         *)
(* registers required_field and if_invalid, and the one that registers     *)
(* choice and requireFields instead.  getRegisteredOption(name) is the     *)
(* extension or undefined; only its truthiness is used.                    *)
(***************************************************************************)
RegistryWithRequiredField ==
    {"required", "if_missing", "pattern", "required_field", "min", "max",
     "range", "distinct", "validate", "if_invalid", "goes"}

RegistryWithChoice ==
    {"required", "if_missing", "pattern", "min", "max", "range", "distinct",
     "validate", "goes", "if_has_duplicates", "choice", "requireFields"}

getRegisteredOption(registry, name) == name \in registry

(***************************************************************************)
(* Schema reflection (the @bufbuild/protobuf descriptors the validators    *)
(* read): field descriptors, options attached to them, scalar types.       *)
(***************************************************************************)
ScalarType ==
    [DOUBLE |-> 1, FLOAT |-> 2, INT64 |-> 3, UINT64 |-> 4, INT32 |-> 5,
     FIXED64 |-> 6, FIXED32 |-> 7, BOOL |-> 8, STRING |-> 9, BYTES |-> 12,
     UINT32 |-> 13, SFIXED32 |-> 15, SFIXED64 |-> 16, SINT32 |-> 17,
     SINT64 |-> 18]

\* field.scalar.toString(): ScalarType is a numeric enum, so this is the
\* decimal numeral of the member, never the text "ScalarType.X".
ScalarToString(scalar) == ToString(scalar)

\* A descriptor without scalar type carries scalar 0 (undefined is falsy, and
\* so is no member of ScalarType).
hasOption(desc, opt) == opt \in DOMAIN desc.options
getOption(desc, opt) == desc.options[opt]

ScalarField(name, localName, scalar, options) ==
    [name |-> name, localName |-> localName, fieldKind |-> "scalar",
     scalar |-> scalar, listKind |-> "", mapKind |-> "", message |-> "",
     options |-> options]
EnumField(name, localName, options) ==
    [name |-> name, localName |-> localName, fieldKind |-> "enum",
     scalar |-> 0, listKind |-> "", mapKind |-> "", message |-> "",
     options |-> options]
MessageField(name, localName, message, options) ==
    [name |-> name, localName |-> localName, fieldKind |-> "message",
     scalar |-> 0, listKind |-> "", mapKind |-> "", message |-> message,
     options |-> options]
ScalarListField(name, localName, scalar, options) ==
    [name |-> name, localName |-> localName, fieldKind |-> "list",
     scalar |-> scalar, listKind |-> "scalar", mapKind |-> "", message |-> "",
     options |-> options]
MessageListField(name, localName, message, options) ==
    [name |-> name, localName |-> localName, fieldKind |-> "list",
     scalar |-> 0, listKind |-> "message", mapKind |-> "", message |-> message,
     options |-> options]
ScalarMapField(name, localName, scalar, options) ==
    [name |-> name, localName |-> localName, fieldKind |-> "map",
     scalar |-> scalar, listKind |-> "", mapKind |-> "scalar", message |-> "",
     options |-> options]
MessageMapField(name, localName, message, options) ==
    [name |-> name, localName |-> localName, fieldKind |-> "map",
     scalar |-> 0, listKind |-> "", mapKind |-> "message", message |-> message,
     options |-> options]

\* No option attached.
NoOptions == [o \in {} |-> TRUE]

\* (message as any)[field.localName]
FieldValue(message, field) == message.f[field.localName]

\* schema.fields.find(f => f.name === fieldName): the matching descriptors.
FindField(schema, fieldName) ==
    {i \in 1..Len(schema.fields) : schema.fields[i].name = fieldName}

(***************************************************************************)
(* ConstraintViolation: typeName, fieldPath.fieldName and the message      *)
(* template.  fieldValue, msgFormat, param and violation are always        *)
(* undefined or empty and are left out.                                    *)
(***************************************************************************)
ConstraintViolation(typeName, fieldName, withPlaceholders, placeholderValue) ==
    [typeName |-> typeName,
     fieldPath |-> fieldName,
     message |-> [withPlaceholders |-> withPlaceholders,
                  placeholderValue |-> placeholderValue]]

(***************************************************************************)
(* (required): options/required.ts                                         *)
(***************************************************************************)
\* String(fieldValue ?? '')
StringOrEmpty(v) == IF v.t = "undefined" THEN "" ELSE StringOf(v)

createRequiredViolation(typeName, fieldName, fieldValue, violationMessage) ==
    ConstraintViolation(typeName, <<fieldName>>, violationMessage,
        [field |-> fieldName, value |-> StringOrEmpty(fieldValue)])

\* The message of (if_missing) when it is registered, attached and non-empty.
RequiredMessage(registry, field) ==
    IF /\ getRegisteredOption(registry, "if_missing")
       /\ hasOption(field, "if_missing")
       /\ getOption(field, "if_missing").errorMsg # ""
    THEN getOption(field, "if_missing").errorMsg
    ELSE "A value must be set."

IsUndefinedOrNull(v) == v.t = "undefined"

\* A scalar rule under which only undefined and null are missing.
RequiredScalarOnlyUndefined(field, fieldValue) == IsUndefinedOrNull(fieldValue)

\* The scalar switch: its labels are texts "ScalarType.X".
RequiredScalarViolated(field, fieldValue) ==
    LET label == ScalarToString(field.scalar) IN
    CASE label = "ScalarType.STRING" ->
            (~Truthy(fieldValue)) \/ (fieldValue.t = "string" /\ fieldValue.s = "")
      [] label = "ScalarType.BYTES" ->
            (~Truthy(fieldValue)) \/ (fieldValue.t = "bytes" /\ fieldValue.len = 0)
      [] label \in {"ScalarType.INT32", "ScalarType.INT64", "ScalarType.UINT32",
                    "ScalarType.UINT64", "ScalarType.SINT32", "ScalarType.SINT64",
                    "ScalarType.FIXED32", "ScalarType.FIXED64",
                    "ScalarType.SFIXED32", "ScalarType.SFIXED64",
                    "ScalarType.FLOAT", "ScalarType.DOUBLE"} ->
            IsUndefinedOrNull(fieldValue)
      [] label = "ScalarType.BOOL" -> IsUndefinedOrNull(fieldValue)
      [] OTHER -> ~Truthy(fieldValue)

RequiredIsViolated(field, fieldValue) ==
    LET first ==
          CASE field.fieldKind = "scalar" ->
                  IF field.scalar # 0
                  THEN RequiredScalarViolated(field, fieldValue)
                  ELSE FALSE
            [] field.fieldKind = "message" -> ~Truthy(fieldValue)
            [] field.fieldKind = "enum" -> IsUndefinedOrNull(fieldValue)
            [] OTHER -> FALSE
    IN IF field.fieldKind = "list"
       THEN (~Truthy(fieldValue)) \/ fieldValue.t # "array"
              \/ Len(fieldValue.xs) = 0
       ELSE first

validateRequiredField(registry, schema, message, field) ==
    IF \/ ~getRegisteredOption(registry, "required")
       \/ ~hasOption(field, "required")
       \/ ~getOption(field, "required")
    THEN <<>>
    ELSE LET fieldValue == FieldValue(message, field)
             custom == RequiredMessage(registry, field)
             violationMessage ==
                 IF field.fieldKind = "list" /\ ~Includes(custom, "at least")
                 THEN "At least one element must be present."
                 ELSE custom
         IN IF RequiredIsViolated(field, fieldValue)
            THEN <<createRequiredViolation(schema.typeName, field.name,
                                           fieldValue, violationMessage)>>
            ELSE <<>>

validateRequiredFields(registry, schema, message) ==
    Flatten([i \in 1..Len(schema.fields) |->
        validateRequiredField(registry, schema, message, schema.fields[i])])


(***************************************************************************)
(* (pattern): options/pattern.ts                                           *)
(***************************************************************************)
UpperCase == {"A", "B", "C", "D", "E", "F", "G", "H", "I", "J", "K", "L", "M",
              "N", "O", "P", "Q", "R", "S", "T", "U", "V", "W", "X", "Y", "Z"}
LowerCase == {"a", "b", "c", "d", "e", "f", "g", "h", "i", "j", "k", "l", "m",
              "n", "o", "p", "q", "r", "s", "t", "u", "v", "w", "x", "y", "z"}

CharAt(s, i) == SubSeq(s, i, i)

\* The regular expressions the modelled schemas use.
NameRegex == "^[A-Z][a-z]*$"
MalformedRegex == "("

\* new RegExp(regex, flags) throws a SyntaxError on a malformed source.
RegExpThrows(regex) == regex = MalformedRegex

\* new RegExp(regex, flags).test(value), for NameRegex: one upper case letter
\* followed by lower case letters; with flag i the case is ignored.
RegExpTest(regex, flags, value) ==
    LET first == IF Includes(flags, "i") THEN UpperCase \cup LowerCase ELSE UpperCase
        rest == IF Includes(flags, "i") THEN UpperCase \cup LowerCase ELSE LowerCase
    IN /\ Len(value) >= 1
       /\ CharAt(value, 1) \in first
       /\ \A i \in 2..Len(value) : CharAt(value, i) \in rest

PatternFlags(modifier) ==
    (IF modifier.caseInsensitive THEN "i" ELSE "")
        \o (IF modifier.multiline THEN "m" ELSE "")
        \o (IF modifier.dotAll THEN "s" ELSE "")
        \o (IF modifier.unicode THEN "u" ELSE "")

\* The modifier of a pattern option; an option without one has no flag set.
NoModifier == [caseInsensitive |-> FALSE, multiline |-> FALSE, dotAll |-> FALSE,
               unicode |-> FALSE, partialMatch |-> FALSE]

\* A check that lets every value pass when the regex does not compile.
validatePatternValueFailingOpen(value, regex, patternOption) ==
    IF value.t # "string"
    THEN FALSE
    ELSE IF RegExpThrows(regex)
         THEN TRUE
         ELSE RegExpTest(regex, PatternFlags(patternOption.modifier), value.s)

validatePatternValue(value, regex, patternOption) ==
    IF value.t # "string"
    THEN FALSE
    ELSE IF RegExpThrows(regex)
         THEN FALSE
         ELSE RegExpTest(regex, PatternFlags(patternOption.modifier), value.s)

createPatternViolation(typeName, fieldName, fieldValue, violationMessage) ==
    ConstraintViolation(typeName, <<fieldName>>, violationMessage,
        [field |-> fieldName, value |-> StringOrEmpty(fieldValue)])

validatePatternField(schema, message, field) ==
    IF ~hasOption(field, "pattern")
    THEN <<>>
    ELSE LET patternValue == getOption(field, "pattern")
             regex == patternValue.regex
             errorMsg ==
                 IF patternValue.errorMsg # ""
                 THEN patternValue.errorMsg
                 ELSE "The string must match the regular expression "
                          \o regex \o "."
             fieldValue == FieldValue(message, field)
         IN CASE field.fieldKind = "list" ->
                   IF fieldValue.t # "array"
                   THEN <<>>
                   ELSE Flatten([i \in 1..Len(fieldValue.xs) |->
                       LET itemValue == fieldValue.xs[i] IN
                       IF /\ itemValue.t = "string"
                          /\ ~validatePatternValue(itemValue, regex, patternValue)
                       THEN <<createPatternViolation(schema.typeName,
                                  field.name \o "[" \o ToString(i - 1) \o "]",
                                  itemValue, errorMsg)>>
                       ELSE <<>>])
              [] /\ field.fieldKind = "scalar"
                 /\ field.scalar = ScalarType.STRING ->
                   IF /\ ~IsUndefinedOrNull(fieldValue)
                      /\ ~(fieldValue.t = "string" /\ fieldValue.s = "")
                      /\ ~validatePatternValue(fieldValue, regex, patternValue)
                   THEN <<createPatternViolation(schema.typeName, field.name,
                                                 fieldValue, errorMsg)>>
                   ELSE <<>>
              [] OTHER -> <<>>

validatePatternFields(registry, schema, message) ==
    IF ~getRegisteredOption(registry, "pattern")
    THEN <<>>
    ELSE Flatten([i \in 1..Len(schema.fields) |->
             validatePatternField(schema, message, schema.fields[i])])

(***************************************************************************)
(* Number parsing: parseInt(s, 10) and parseFloat(s).  A parsed number is  *)
(* [nan, n]; the model's numbers are the integers, so the strings given to *)
(* parseFloat have a fraction of zeros (as in "180.0") or none.            *)
(***************************************************************************)
Digits == {"0", "1", "2", "3", "4", "5", "6", "7", "8", "9"}
DigitValue(c) ==
    CASE c = "0" -> 0 [] c = "1" -> 1 [] c = "2" -> 2 [] c = "3" -> 3
      [] c = "4" -> 4 [] c = "5" -> 5 [] c = "6" -> 6 [] c = "7" -> 7
      [] c = "8" -> 8 [] c = "9" -> 9

\* The white space of trim(), parseInt and parseFloat (the members the model uses).
WhiteSpace == {" ", "\t", "\n", "\r"}

NaN == [nan |-> TRUE, n |-> 0]
Number(n) == [nan |-> FALSE, n |-> n]

\* First index at or after i that holds no white space.
RECURSIVE SkipWhiteSpace(_, _)
SkipWhiteSpace(s, i) ==
    IF i <= Len(s) /\ CharAt(s, i) \in WhiteSpace
    THEN SkipWhiteSpace(s, i + 1)
    ELSE i

\* First index at or after i that holds no digit.
RECURSIVE DigitsEnd(_, _)
DigitsEnd(s, i) ==
    IF i <= Len(s) /\ CharAt(s, i) \in Digits THEN DigitsEnd(s, i + 1) ELSE i

\* The value of the digits s[i..j-1].
RECURSIVE DigitsNumber(_, _, _)
DigitsNumber(s, i, j) ==
    IF j <= i THEN 0
    ELSE 10 * DigitsNumber(s, i, j - 1) + DigitValue(CharAt(s, j - 1))

parseInt(s) ==
    LET start == SkipWhiteSpace(s, 1)
        signed == start <= Len(s) /\ CharAt(s, start) \in {"+", "-"}
        first == IF signed THEN start + 1 ELSE start
        end == DigitsEnd(s, first)
        magnitude == DigitsNumber(s, first, end)
    IN IF end = first
       THEN NaN
       ELSE Number(IF signed /\ CharAt(s, start) = "-"
                   THEN 0 - magnitude ELSE magnitude)

\* parseFloat reads the same integer part, and stops after an optional
\* fraction; a string that starts with "." and digits is a number too.
parseFloat(s) ==
    LET start == SkipWhiteSpace(s, 1)
        signed == start <= Len(s) /\ CharAt(s, start) \in {"+", "-"}
        first == IF signed THEN start + 1 ELSE start
        end == DigitsEnd(s, first)
        magnitude == DigitsNumber(s, first, end)
        hasFraction == /\ end <= Len(s)
                       /\ CharAt(s, end) = "."
                       /\ DigitsEnd(s, end + 1) > end + 1
    IN IF end = first /\ ~hasFraction
       THEN NaN
       ELSE Number(IF signed /\ CharAt(s, start) = "-"
                   THEN 0 - magnitude ELSE magnitude)

(***************************************************************************)
(* (min) / (max): options/min-max.ts                                       *)
(***************************************************************************)
isNumericType(scalarType) ==
    /\ scalarType # ScalarType.STRING
    /\ scalarType # ScalarType.BYTES
    /\ scalarType # ScalarType.BOOL

parseThreshold(valueStr, scalarType) ==
    IF scalarType = ScalarType.FLOAT \/ scalarType = ScalarType.DOUBLE
    THEN parseFloat(valueStr)
    ELSE parseInt(valueStr)

\* A min check that is inclusive whatever the exclusive flag.
validateMinValueInclusive(value, minOption, scalarType) ==
    LET threshold == parseThreshold(minOption.value, scalarType) IN
    threshold.nan \/ value.n >= threshold.n

validateMinValue(value, minOption, scalarType) ==
    LET threshold == parseThreshold(minOption.value, scalarType) IN
    IF threshold.nan
    THEN TRUE
    ELSE IF minOption.exclusive
         THEN value.n > threshold.n
         ELSE value.n >= threshold.n

validateMaxValue(value, maxOption, scalarType) ==
    LET threshold == parseThreshold(maxOption.value, scalarType) IN
    IF threshold.nan
    THEN TRUE
    ELSE IF maxOption.exclusive
         THEN value.n < threshold.n
         ELSE value.n <= threshold.n

getMinErrorMessage(minOption) ==
    IF minOption.errorMsg # ""
    THEN minOption.errorMsg
    ELSE "The number must be "
             \o (IF minOption.exclusive THEN "greater than" ELSE "at least")
             \o " {other}."

getMaxErrorMessage(maxOption) ==
    IF maxOption.errorMsg # ""
    THEN maxOption.errorMsg
    ELSE "The number must be "
             \o (IF maxOption.exclusive THEN "less than" ELSE "at most")
             \o " {other}."

createMinMaxViolation(typeName, fieldName, fieldValue, errorMessage, thresholdValue) ==
    ConstraintViolation(typeName, fieldName, errorMessage,
        [value |-> StringOf(fieldValue), other |-> thresholdValue])

validateSingleValue(registry, schema, field, value, fieldPath, scalarType) ==
    LET minPart ==
          IF /\ getRegisteredOption(registry, "min")
             /\ hasOption(field, "min")
             /\ getOption(field, "min").value # ""
             /\ ~validateMinValue(value, getOption(field, "min"), scalarType)
          THEN <<createMinMaxViolation(schema.typeName, fieldPath, value,
                     getMinErrorMessage(getOption(field, "min")),
                     getOption(field, "min").value)>>
          ELSE <<>>
        maxPart ==
          IF /\ getRegisteredOption(registry, "max")
             /\ hasOption(field, "max")
             /\ getOption(field, "max").value # ""
             /\ ~validateMaxValue(value, getOption(field, "max"), scalarType)
          THEN <<createMinMaxViolation(schema.typeName, fieldPath, value,
                     getMaxErrorMessage(getOption(field, "max")),
                     getOption(field, "max").value)>>
          ELSE <<>>
    IN minPart \o maxPart

validateFieldMinMax(registry, schema, message, field) ==
    LET fieldValue == FieldValue(message, field) IN
    IF ~getRegisteredOption(registry, "min") /\ ~getRegisteredOption(registry, "max")
    THEN <<>>
    ELSE CASE field.fieldKind = "list" ->
                IF \/ field.listKind # "scalar"
                   \/ field.scalar = 0
                   \/ ~isNumericType(field.scalar)
                   \/ fieldValue.t # "array"
                   \/ Len(fieldValue.xs) = 0
                THEN <<>>
                ELSE Flatten([i \in 1..Len(fieldValue.xs) |->
                         validateSingleValue(registry, schema, field,
                             fieldValue.xs[i],
                             <<field.name, ToString(i - 1)>>, field.scalar)])
           [] field.fieldKind = "scalar" ->
                IF \/ field.scalar = 0
                   \/ ~isNumericType(field.scalar)
                   \/ IsUndefinedOrNull(fieldValue)
                THEN <<>>
                ELSE validateSingleValue(registry, schema, field, fieldValue,
                                         <<field.name>>, field.scalar)
           [] OTHER -> <<>>

validateMinMaxFields(registry, schema, message) ==
    Flatten([i \in 1..Len(schema.fields) |->
        validateFieldMinMax(registry, schema, message, schema.fields[i])])


(***************************************************************************)
(* (range): options/range.ts                                               *)
(***************************************************************************)
\* rangeStr.trim()
RECURSIVE TrimEnd(_)
TrimEnd(s) ==
    IF Len(s) > 0 /\ CharAt(s, Len(s)) \in WhiteSpace
    THEN TrimEnd(SubSeq(s, 1, Len(s) - 1))
    ELSE s

Trim(s) == LET start == SkipWhiteSpace(s, 1)
           IN TrimEnd(SubSeq(s, start, Len(s)))

\* s.split('..'): the pieces between the occurrences of "..", found left to
\* right without overlap.
RECURSIVE SplitDotDot(_)
SplitDotDot(s) ==
    LET hits == {i \in 1..(Len(s) - 1) : SubSeq(s, i, i + 1) = ".."} IN
    IF hits = {}
    THEN <<s>>
    ELSE LET i == CHOOSE h \in hits : \A g \in hits : h <= g
         IN <<SubSeq(s, 1, i - 1)>> \o SplitDotDot(SubSeq(s, i + 2, Len(s)))

\* parseRange returns null (ok = FALSE) or the parsed range.
NullRange == [ok |-> FALSE, min |-> 0, max |-> 0,
              minInclusive |-> FALSE, maxInclusive |-> FALSE]

\* A parser that accepts a range whose minimum exceeds its maximum.
parseRangeUnordered(rangeStr, scalarType) ==
    LET trimmed == Trim(rangeStr) IN
    IF Len(trimmed) < 5
    THEN NullRange
    ELSE LET firstChar == CharAt(trimmed, 1)
             lastChar == CharAt(trimmed, Len(trimmed))
             parts == SplitDotDot(SubSeq(trimmed, 2, Len(trimmed) - 1))
         IN IF \/ firstChar \notin {"[", "("}
               \/ lastChar \notin {")", "]"}
               \/ Len(parts) # 2
            THEN NullRange
            ELSE LET isFloat == scalarType \in {ScalarType.FLOAT, ScalarType.DOUBLE}
                     min == IF isFloat THEN parseFloat(parts[1])
                                       ELSE parseInt(parts[1])
                     max == IF isFloat THEN parseFloat(parts[2])
                                       ELSE parseInt(parts[2])
                 IN IF min.nan \/ max.nan
                    THEN NullRange
                    ELSE [ok |-> TRUE, min |-> min.n, max |-> max.n,
                          minInclusive |-> firstChar = "[",
                          maxInclusive |-> lastChar = "]"]

parseRange(rangeStr, scalarType) ==
    LET trimmed == Trim(rangeStr) IN
    IF Len(trimmed) < 5
    THEN NullRange
    ELSE LET firstChar == CharAt(trimmed, 1)
             lastChar == CharAt(trimmed, Len(trimmed))
             middle == SubSeq(trimmed, 2, Len(trimmed) - 1)
             parts == SplitDotDot(middle)
         IN IF firstChar \notin {"[", "("} \/ lastChar \notin {")", "]"}
            THEN NullRange
            ELSE IF Len(parts) # 2
            THEN NullRange
            ELSE LET isFloat == \/ scalarType = ScalarType.FLOAT
                                \/ scalarType = ScalarType.DOUBLE
                     min == IF isFloat THEN parseFloat(parts[1])
                                       ELSE parseInt(parts[1])
                     max == IF isFloat THEN parseFloat(parts[2])
                                       ELSE parseInt(parts[2])
                 IN IF min.nan \/ max.nan
                    THEN NullRange
                    ELSE IF min.n > max.n
                    THEN NullRange
                    ELSE [ok |-> TRUE, min |-> min.n, max |-> max.n,
                          minInclusive |-> firstChar = "[",
                          maxInclusive |-> lastChar = "]"]

\* A range check with both bounds inclusive whatever the brackets.
validateRangeValueClosed(value, range) ==
    value.n >= range.min /\ value.n <= range.max

validateRangeValue(value, range) ==
    LET belowMin == IF range.minInclusive
                    THEN value.n < range.min
                    ELSE value.n <= range.min
        aboveMax == IF range.maxInclusive
                    THEN value.n > range.max
                    ELSE value.n >= range.max
    IN IF belowMin THEN FALSE ELSE ~aboveMax

createRangeViolation(typeName, fieldName, fieldValue, rangeStr) ==
    ConstraintViolation(typeName, fieldName,
        "The number must be in range " \o rangeStr \o ".",
        [value |-> StringOf(fieldValue), range |-> rangeStr])

validateFieldRange(registry, schema, message, field) ==
    LET fieldValue == FieldValue(message, field) IN
    IF ~getRegisteredOption(registry, "range")
    THEN <<>>
    ELSE CASE field.fieldKind = "list" ->
                IF \/ field.listKind # "scalar"
                   \/ field.scalar = 0
                   \/ ~isNumericType(field.scalar)
                   \/ ~hasOption(field, "range")
                THEN <<>>
                ELSE LET rangeStr == getOption(field, "range")
                         range == parseRange(rangeStr, field.scalar)
                     IN IF \/ rangeStr = ""
                           \/ ~range.ok
                           \/ fieldValue.t # "array"
                           \/ Len(fieldValue.xs) = 0
                        THEN <<>>
                        ELSE Flatten([i \in 1..Len(fieldValue.xs) |->
                                 IF ~validateRangeValue(fieldValue.xs[i], range)
                                 THEN <<createRangeViolation(schema.typeName,
                                            <<field.name, ToString(i - 1)>>,
                                            fieldValue.xs[i], rangeStr)>>
                                 ELSE <<>>])
           [] field.fieldKind = "scalar" ->
                IF \/ field.scalar = 0
                   \/ ~isNumericType(field.scalar)
                   \/ ~hasOption(field, "range")
                THEN <<>>
                ELSE LET rangeStr == getOption(field, "range")
                         range == parseRange(rangeStr, field.scalar)
                     IN IF \/ rangeStr = ""
                           \/ ~range.ok
                           \/ IsUndefinedOrNull(fieldValue)
                        THEN <<>>
                        ELSE IF ~validateRangeValue(fieldValue, range)
                             THEN <<createRangeViolation(schema.typeName,
                                        <<field.name>>, fieldValue, rangeStr)>>
                             ELSE <<>>
           [] OTHER -> <<>>

validateRangeFields(registry, schema, message) ==
    Flatten([i \in 1..Len(schema.fields) |->
        validateFieldRange(registry, schema, message, schema.fields[i])])

(***************************************************************************)
(* (distinct): options/distinct.ts                                         *)
(***************************************************************************)
createDistinctViolation(typeName, fieldName, duplicateValue, firstIndex, duplicateIndex) ==
    ConstraintViolation(typeName, fieldName,
        "Duplicate value found in repeated field. Value {value} at index {duplicate_index} is a duplicate of the value at index {first_index}.",
        [value |-> StringOf(duplicateValue),
         first_index |-> ToString(firstIndex),
         duplicate_index |-> ToString(duplicateIndex)])

\* An equality under which no two values are equal.
valuesAreNeverEqual(val1, val2) == FALSE

\* val1 === val2 : primitives by type and value, objects by identity.  Two
\* elements of one list are never the same object.
valuesAreEqual(val1, val2) ==
    /\ val1.t = val2.t
    /\ CASE val1.t = "string" -> val1.s = val2.s
         [] val1.t \in {"number", "bigint"} -> val1.n = val2.n
         [] val1.t = "boolean" -> val1.b = val2.b
         [] val1.t = "undefined" -> TRUE
         [] OTHER -> FALSE

\* seenValues after the elements xs[1..k]: the (1-based) positions of the
\* elements that were stored, in insertion order.
RECURSIVE SeenValues(_, _)
SeenValues(xs, k) ==
    IF k = 0 THEN <<>>
    ELSE LET seen == SeenValues(xs, k - 1)
         IN IF \E j \in 1..Len(seen) : valuesAreEqual(xs[k], xs[seen[j]])
            THEN seen
            ELSE Append(seen, k)

validateFieldDistinct(registry, schema, message, field) ==
    IF \/ ~getRegisteredOption(registry, "distinct")
       \/ field.fieldKind # "list"
       \/ ~hasOption(field, "distinct")
       \/ getOption(field, "distinct") # TRUE
    THEN <<>>
    ELSE LET fieldValue == FieldValue(message, field) IN
         IF fieldValue.t # "array" \/ Len(fieldValue.xs) <= 1
         THEN <<>>
         ELSE Flatten([k \in 1..Len(fieldValue.xs) |->
                  LET seen == SeenValues(fieldValue.xs, k - 1)
                      hits == {j \in 1..Len(seen) :
                                  valuesAreEqual(fieldValue.xs[k],
                                                 fieldValue.xs[seen[j]])}
                  IN IF hits # {}
                     THEN LET j == CHOOSE h \in hits : \A g \in hits : h <= g
                          IN <<createDistinctViolation(schema.typeName,
                                   <<field.name, ToString(k - 1)>>,
                                   fieldValue.xs[k], seen[j] - 1, k - 1)>>
                     ELSE <<>>])

validateDistinctFields(registry, schema, message) ==
    Flatten([i \in 1..Len(schema.fields) |->
        validateFieldDistinct(registry, schema, message, schema.fields[i])])


(***************************************************************************)
(* (required_field): options/required-field.ts                             *)
(***************************************************************************)
createRequiredFieldViolation(typeName, expression, violationMessage) ==
    ConstraintViolation(typeName, <<>>, violationMessage,
        [expression |-> expression])

isFieldSet(message, fieldName, schema) ==
    LET found == FindField(schema, fieldName) IN
    IF found = {}
    THEN FALSE
    ELSE LET field == schema.fields[CHOOSE i \in found : \A j \in found : i <= j]
             fieldValue == FieldValue(message, field)
         IN CASE field.fieldKind = "scalar" ->
                   IF field.scalar = 0
                   THEN FALSE
                   ELSE IF field.scalar \in {ScalarType.STRING, ScalarType.BYTES}
                        THEN /\ ~IsUndefinedOrNull(fieldValue)
                             /\ ~(fieldValue.t = "string" /\ fieldValue.s = "")
                        ELSE IF field.scalar = ScalarType.BOOL
                             THEN ~IsUndefinedOrNull(fieldValue)
                             ELSE /\ ~IsUndefinedOrNull(fieldValue)
                                  /\ ~StrictEqualsZero(fieldValue)
              [] field.fieldKind = "message" -> ~IsUndefinedOrNull(fieldValue)
              [] field.fieldKind = "enum" ->
                   /\ ~IsUndefinedOrNull(fieldValue)
                   /\ ~StrictEqualsZero(fieldValue)
              [] field.fieldKind \in {"list", "map"} ->
                   /\ ~IsUndefinedOrNull(fieldValue)
                   /\ IF fieldValue.t = "array"
                      THEN Len(fieldValue.xs) > 0
                      ELSE Len(fieldValue.entries) > 0
              [] OTHER -> FALSE

\* The characters the loop of tokenize acts on; any other character is
\* appended to the pending text.
Delimiters == {"(", ")", "|", "&"}
Blanks == {" ", "\t", "\n"}

\* First index at or after i that holds a delimiter or a blank.
NameEnd(expression, i) ==
    LET stops == {j \in i..Len(expression) :
                     CharAt(expression, j) \in Delimiters \cup Blanks}
    IN IF stops = {} THEN Len(expression) + 1
       ELSE CHOOSE j \in stops : \A k \in stops : j <= k

\* The loop of tokenize from character i on, with the tokens and the pending
\* text collected so far; a run of name characters is appended in one step.
RECURSIVE TokenizeFrom(_, _, _, _)
TokenizeFrom(expression, i, tokens, current) ==
    IF i > Len(expression)
    THEN IF Trim(current) # "" THEN Append(tokens, Trim(current)) ELSE tokens
    ELSE LET char == CharAt(expression, i) IN
         IF char \in Delimiters
         THEN IF Trim(current) # ""
              THEN TokenizeFrom(expression, i + 1,
                                Append(Append(tokens, Trim(current)), char), "")
              ELSE TokenizeFrom(expression, i + 1, Append(tokens, char), current)
         ELSE IF char \in Blanks
              THEN IF Trim(current) # ""
                   THEN TokenizeFrom(expression, i + 1,
                                     Append(tokens, Trim(current)), "")
                   ELSE TokenizeFrom(expression, i + 1, tokens, current)
              ELSE LET end == NameEnd(expression, i)
                   IN TokenizeFrom(expression, end, tokens,
                                   current \o SubSeq(expression, i, end - 1))

tokenize(expression) == TokenizeFrom(expression, 1, <<>>, "")

\* The three parsers share `index`; each returns its result and the index it
\* leaves.  Indices are 1-based here: index <= Len(tokens) is the source's
\* index < tokens.length.
RECURSIVE parseOr(_, _, _, _)
RECURSIVE parseOrLoop(_, _, _, _, _)
RECURSIVE parseAnd(_, _, _, _)
RECURSIVE parseAndLoop(_, _, _, _, _)
RECURSIVE parsePrimary(_, _, _, _)

parseOrLoop(tokens, result, index, message, schema) ==
    IF index <= Len(tokens) /\ tokens[index] = "|"
    THEN LET right == parseAnd(tokens, index + 1, message, schema)
         IN parseOrLoop(tokens, result \/ right.result, right.index,
                        message, schema)
    ELSE [result |-> result, index |-> index]

parseOr(tokens, index, message, schema) ==
    LET left == parseAnd(tokens, index, message, schema)
    IN parseOrLoop(tokens, left.result, left.index, message, schema)

parseAndLoop(tokens, result, index, message, schema) ==
    IF index <= Len(tokens) /\ tokens[index] = "&"
    THEN LET right == parsePrimary(tokens, index + 1, message, schema)
         IN parseAndLoop(tokens, result /\ right.result, right.index,
                         message, schema)
    ELSE [result |-> result, index |-> index]

\* An And level that reads one operand and no `&`.
parseAndWithoutLoop(tokens, index, message, schema) ==
    parsePrimary(tokens, index, message, schema)

parseAnd(tokens, index, message, schema) ==
    LET left == parsePrimary(tokens, index, message, schema)
    IN parseAndLoop(tokens, left.result, left.index, message, schema)

\* A primary that is false when its closing parenthesis is missing.
parsePrimaryStrict(tokens, index, message, schema) ==
    IF index > Len(tokens)
    THEN [result |-> FALSE, index |-> index]
    ELSE LET token == tokens[index] IN
         IF token = "("
         THEN LET inner == parseOr(tokens, index + 1, message, schema)
              IN IF inner.index <= Len(tokens) /\ tokens[inner.index] = ")"
                 THEN [result |-> inner.result, index |-> inner.index + 1]
                 ELSE [result |-> FALSE, index |-> inner.index]
         ELSE IF token \in {"|", "&", ")"}
              THEN [result |-> FALSE, index |-> index]
              ELSE [result |-> isFieldSet(message, token, schema),
                    index |-> index + 1]

parsePrimary(tokens, index, message, schema) ==
    IF index > Len(tokens)
    THEN [result |-> FALSE, index |-> index]
    ELSE LET token == tokens[index] IN
         IF token = "("
         THEN LET inner == parseOr(tokens, index + 1, message, schema)
              IN IF inner.index <= Len(tokens) /\ tokens[inner.index] = ")"
                 THEN [result |-> inner.result, index |-> inner.index + 1]
                 ELSE inner
         ELSE IF token \in {"|", "&", ")"}
              THEN [result |-> FALSE, index |-> index]
              ELSE [result |-> isFieldSet(message, token, schema),
                    index |-> index + 1]

evaluateExpression(expression, message, schema) ==
    parseOr(tokenize(expression), 1, message, schema).result

\* The extension number of (required_field).
RequiredFieldNumber == 73902

\* The character a raw length byte decodes to: no delimiter, no white space.
LengthByte == "#"

\* An unknown field of wire type length-delimited keeps its bytes as they
\* were read: the varint length (one byte below 128, two from 128 on) and
\* then the text.
LengthDelimited(text) ==
    (IF Len(text) < 128 THEN LengthByte ELSE LengthByte \o LengthByte) \o text

\* The message options of a schema: absent, or with their unknown fields.
NoMessageOptions == [present |-> FALSE, unknown |-> <<>>]
MessageOptions(unknown) == [present |-> TRUE, unknown |-> unknown]
RequiredFieldOption(expression) ==
    MessageOptions(<<[no |-> RequiredFieldNumber,
                      data |-> LengthDelimited(expression)]>>)

\* data.slice(1), decoded as text
DataWithoutLength(data) == SubSeq(data, 2, Len(data))

\* hasExtension / getExtension read the same unknown fields, and read the
\* length as a varint.
hasExtension(options, no) ==
    \E i \in 1..Len(options.unknown) : options.unknown[i].no = no
getExtension(options, no) ==
    LET i == CHOOSE j \in 1..Len(options.unknown) : options.unknown[j].no = no
        data == options.unknown[i].data
    IN IF Len(data) - 1 < 128
       THEN SubSeq(data, 2, Len(data))
       ELSE SubSeq(data, 3, Len(data))

RequiredFieldMessage(expression) ==
    "At least one of the required field combinations must be satisfied: "
        \o expression

RequiredFieldCheck(schema, message, expression) ==
    IF ~evaluateExpression(expression, message, schema)
    THEN <<createRequiredFieldViolation(schema.typeName, expression,
                                        RequiredFieldMessage(expression))>>
    ELSE <<>>

validateRequiredFieldOption(registry, schema, message) ==
    IF ~getRegisteredOption(registry, "required_field")
    THEN <<>>
    ELSE IF ~schema.options.present
    THEN <<>>
    ELSE LET unknownFields == schema.options.unknown
             found == {i \in 1..Len(unknownFields) :
                          unknownFields[i].no = RequiredFieldNumber}
             first == CHOOSE i \in found : \A j \in found : i <= j
             sliced == DataWithoutLength(unknownFields[first].data)
         IN IF found # {} /\ sliced # ""
            THEN RequiredFieldCheck(schema, message, sliced)
            ELSE IF ~hasExtension(schema.options, RequiredFieldNumber)
            THEN <<>>
            ELSE LET expression == getExtension(schema.options,
                                                RequiredFieldNumber)
                 IN IF expression = ""
                    THEN <<>>
                    ELSE RequiredFieldCheck(schema, message, expression)


(***************************************************************************)
(* Schemas under validation.  A schema is its typeName, its ordered field  *)
(* and oneof descriptors and its message options.                          *)
(***************************************************************************)
Schema(typeName, fields, oneofs, options) ==
    [typeName |-> typeName, fields |-> fields, oneofs |-> oneofs,
     options |-> options]

Pattern(regex, errorMsg, modifier) ==
    [regex |-> regex, errorMsg |-> errorMsg, modifier |-> modifier]
Bound(value, exclusive) == [value |-> value, exclusive |-> exclusive, errorMsg |-> ""]
Goes(with) == [with |-> with, errorMsg |-> ""]

\* Nested type: a person with a required name and a non-negative age.
PersonSchema ==
    Schema("spine.test.Person",
        <<ScalarField("name", "name", ScalarType.STRING,
              [required |-> TRUE]),
          ScalarField("age", "age", ScalarType.INT32,
              [min |-> Bound("0", FALSE)])>>,
        <<>>, NoMessageOptions)

\* (validate) on a singular and a repeated message field; `deputy` is the
\* control: a message field without the option.
TeamSchema ==
    Schema("spine.test.Team",
        <<MessageField("lead", "lead", "spine.test.Person",
              [validate |-> TRUE, if_invalid |-> [errorMsg |-> "Invalid lead."]]),
          MessageListField("members", "members", "spine.test.Person",
              [validate |-> TRUE]),
          MessageField("deputy", "deputy", "spine.test.Person",
              [validate |-> FALSE])>>,
        <<>>, NoMessageOptions)

\* (validate) on a map of messages.
DirectorySchema ==
    Schema("spine.test.Directory",
        <<MessageMapField("by_role", "byRole", "spine.test.Person",
              [validate |-> TRUE])>>,
        <<>>, NoMessageOptions)

\* A type that nests itself: (validate) on a field and on a list of its own type.
FolderSchema ==
    Schema("spine.test.Folder",
        <<ScalarField("name", "name", ScalarType.STRING,
              [required |-> TRUE]),
          MessageField("parent", "parent", "spine.test.Folder",
              [validate |-> TRUE]),
          MessageListField("links", "links", "spine.test.Folder",
              [validate |-> TRUE])>>,
        <<>>, NoMessageOptions)

\* field.message: the nested schema of a message, list or map field.
SchemaOf(typeName) ==
    CASE typeName = "spine.test.Person" -> PersonSchema
      [] typeName = "spine.test.Team" -> TeamSchema
      [] typeName = "spine.test.Directory" -> DirectorySchema
      [] typeName = "spine.test.Folder" -> FolderSchema

(***************************************************************************)
(* (validate) / (if_invalid): options/validate.ts                          *)
(***************************************************************************)
\* validateNestedMessage calls validate, which calls it in turn.
RECURSIVE validate(_, _, _)

createNestedViolation(typeName, fieldName, errorMessage, fieldValue) ==
    ConstraintViolation(typeName, fieldName, errorMessage,
        [value |-> IF Truthy(fieldValue) THEN StringOf(fieldValue) ELSE ""])

\* ifInvalidOption is [present, errorMsg]: absent when (if_invalid) is not
\* registered or not attached.
getErrorMessage(ifInvalidOption) ==
    IF ifInvalidOption.present /\ ifInvalidOption.errorMsg # ""
    THEN ifInvalidOption.errorMsg
    ELSE "Nested message validation failed."

\* A re-emission that keeps the nested path as it is.
UnadjustedViolation(fieldPath, nestedViolation) == nestedViolation

\* The violation re-emitted for the parent: only the path changes.
AdjustedViolation(fieldPath, nestedViolation) ==
    [nestedViolation EXCEPT !.fieldPath = fieldPath \o nestedViolation.fieldPath]

\* A re-emission that stamps the nested violations with the parent's type.
NestedPushesRetyped(parentTypeName, fieldPath, nestedMessage, ifInvalidOption, nestedViolations) ==
    IF Len(nestedViolations) > 0
    THEN <<createNestedViolation(parentTypeName, fieldPath,
                                 getErrorMessage(ifInvalidOption), nestedMessage)>>
         \o [i \in 1..Len(nestedViolations) |->
                [AdjustedViolation(fieldPath, nestedViolations[i])
                    EXCEPT !.typeName = parentTypeName]]
    ELSE <<>>

\* What validateNestedMessage pushes once validate has returned
\* nestedViolations.
NestedPushes(parentTypeName, fieldPath, nestedMessage, ifInvalidOption, nestedViolations) ==
    IF Len(nestedViolations) > 0
    THEN <<createNestedViolation(parentTypeName, fieldPath,
                                 getErrorMessage(ifInvalidOption), nestedMessage)>>
         \o [i \in 1..Len(nestedViolations) |->
                AdjustedViolation(fieldPath, nestedViolations[i])]
    ELSE <<>>

validateNestedMessage(registry, parentTypeName, fieldPath, nestedMessage, nestedSchema, ifInvalidOption) ==
    NestedPushes(parentTypeName, fieldPath, nestedMessage, ifInvalidOption,
                 validate(registry, nestedSchema, nestedMessage))

validateFieldValidate(registry, schema, message, field) ==
    IF \/ ~getRegisteredOption(registry, "validate")
       \/ ~hasOption(field, "validate")
       \/ getOption(field, "validate") # TRUE
    THEN <<>>
    ELSE LET ifInvalidOption ==
                 IF /\ getRegisteredOption(registry, "if_invalid")
                    /\ hasOption(field, "if_invalid")
                 THEN [present |-> TRUE,
                       errorMsg |-> getOption(field, "if_invalid").errorMsg]
                 ELSE [present |-> FALSE, errorMsg |-> ""]
             fieldValue == FieldValue(message, field)
         IN CASE field.fieldKind = "message" ->
                   IF ~Truthy(fieldValue) \/ field.message = ""
                   THEN <<>>
                   ELSE validateNestedMessage(registry, schema.typeName,
                            <<field.name>>, fieldValue,
                            SchemaOf(field.message), ifInvalidOption)
              [] field.fieldKind = "list" ->
                   IF \/ fieldValue.t # "array"
                      \/ Len(fieldValue.xs) = 0
                      \/ field.listKind # "message"
                      \/ field.message = ""
                   THEN <<>>
                   ELSE Flatten([i \in 1..Len(fieldValue.xs) |->
                            IF Truthy(fieldValue.xs[i])
                            THEN validateNestedMessage(registry, schema.typeName,
                                     <<field.name, ToString(i - 1)>>,
                                     fieldValue.xs[i],
                                     SchemaOf(field.message), ifInvalidOption)
                            ELSE <<>>])
              [] field.fieldKind = "map" ->
                   IF \/ ~Truthy(fieldValue)
                      \/ Len(fieldValue.entries) = 0
                      \/ field.mapKind # "message"
                      \/ field.message = ""
                   THEN <<>>
                   ELSE Flatten([i \in 1..Len(fieldValue.entries) |->
                            IF Truthy(fieldValue.entries[i].value)
                            THEN validateNestedMessage(registry, schema.typeName,
                                     <<field.name, fieldValue.entries[i].key>>,
                                     fieldValue.entries[i].value,
                                     SchemaOf(field.message), ifInvalidOption)
                            ELSE <<>>])
              [] OTHER -> <<>>

validateNestedFields(registry, schema, message) ==
    Flatten([i \in 1..Len(schema.fields) |->
        validateFieldValidate(registry, schema, message, schema.fields[i])])

(***************************************************************************)
(* (goes): options/goes.ts                                                 *)
(***************************************************************************)
goesIsFieldSet(value) ==
    CASE IsUndefinedOrNull(value) -> FALSE
      [] TypeOf(value) = "string" -> value.s # ""
      [] TypeOf(value) = "number" -> value.n # 0
      [] TypeOf(value) = "boolean" -> TRUE
      [] TypeOf(value) = "object" -> TRUE
      [] OTHER -> FALSE

createGoesViolation(typeName, fieldName, requiredFieldName, fieldValue, customErrorMsg) ==
    ConstraintViolation(typeName, <<fieldName>>,
        IF customErrorMsg # ""
        THEN customErrorMsg
        ELSE "The field " \o fieldName \o " can only be set when the field "
                 \o requiredFieldName \o " is defined.",
        [value |-> StringOf(fieldValue)])

validateFieldGoes(registry, schema, message, field) ==
    IF \/ ~getRegisteredOption(registry, "goes")
       \/ ~hasOption(field, "goes")
       \/ getOption(field, "goes").with = ""
    THEN <<>>
    ELSE LET goesOption == getOption(field, "goes")
             requiredFieldName == goesOption.with
             fieldValue == FieldValue(message, field)
             found == FindField(schema, requiredFieldName)
         IN IF ~goesIsFieldSet(fieldValue)
            THEN <<>>
            ELSE IF found = {}
            THEN <<createGoesViolation(schema.typeName, field.name,
                       requiredFieldName, fieldValue,
                       "Field " \o field.name \o " references non-existent field "
                           \o requiredFieldName \o " in (goes).with option.")>>
            ELSE LET requiredField ==
                         schema.fields[CHOOSE i \in found : \A j \in found : i <= j]
                 IN IF ~goesIsFieldSet(FieldValue(message, requiredField))
                    THEN <<createGoesViolation(schema.typeName, field.name,
                               requiredFieldName, fieldValue, goesOption.errorMsg)>>
                    ELSE <<>>

validateGoesFields(registry, schema, message) ==
    Flatten([i \in 1..Len(schema.fields) |->
        validateFieldGoes(registry, schema, message, schema.fields[i])])

(***************************************************************************)
(* (choice): options/choice.ts                                             *)
(***************************************************************************)
createChoiceViolation(typeName, oneofName, customErrorMsg) ==
    ConstraintViolation(typeName, <<oneofName>>,
        IF customErrorMsg # ""
        THEN customErrorMsg
        ELSE "The oneof group '" \o oneofName
                 \o "' must have one of its fields set.",
        [key \in {"group.path", "parent.type"} |->
            IF key = "group.path" THEN oneofName ELSE typeName])

\* A oneof value is [case, value]; case "" is the undefined case.
isOneofSet(message, oneof) ==
    LET oneofValue == message.f[oneof.localName]
    IN ~IsUndefinedOrNull(oneofValue) /\ oneofValue.case # ""

validateOneofChoice(registry, schema, message, oneof) ==
    IF ~getRegisteredOption(registry, "choice") \/ ~hasOption(oneof, "choice")
    THEN <<>>
    ELSE LET choiceOption == getOption(oneof, "choice") IN
         IF choiceOption.required = TRUE /\ ~isOneofSet(message, oneof)
         THEN <<createChoiceViolation(schema.typeName, oneof.name,
                                      choiceOption.errorMsg)>>
         ELSE <<>>

validateChoiceFields(registry, schema, message) ==
    Flatten([i \in 1..Len(schema.oneofs) |->
        validateOneofChoice(registry, schema, message, schema.oneofs[i])])

(***************************************************************************)
(* validate: validation.ts                                                 *)
(***************************************************************************)
validate(registry, schema, message) ==
    validateRequiredFields(registry, schema, message)
        \o validatePatternFields(registry, schema, message)
        \o validateRequiredFieldOption(registry, schema, message)
        \o validateMinMaxFields(registry, schema, message)
        \o validateRangeFields(registry, schema, message)
        \o validateDistinctFields(registry, schema, message)
        \o validateNestedFields(registry, schema, message)
        \o validateGoesFields(registry, schema, message)
        \o validateChoiceFields(registry, schema, message)

(***************************************************************************)
(* formatTemplateString: validation.ts                                     *)
(***************************************************************************)
\* Object.entries(template.placeholderValue): the keys in insertion order.
\* Every violation inserts its keys in the order of this list.
PlaceholderKeys ==
    <<"field", "value", "other", "range", "first_index", "duplicate_index",
      "expression", "group.path", "parent.type">>

\* new RegExp('\\$\\{' + key + '\\}') matches s at i: the text "${", the key,
\* where a dot of the key stands for any character but a line end, and "}".
PlaceholderAt(s, i, key) ==
    /\ i + Len(key) + 2 <= Len(s)
    /\ SubSeq(s, i, i + 1) = "${"
    /\ \A j \in 1..Len(key) :
           IF CharAt(key, j) = "."
           THEN CharAt(s, i + 1 + j) \notin {"\n", "\r"}
           ELSE CharAt(s, i + 1 + j) = CharAt(key, j)
    /\ CharAt(s, i + Len(key) + 2) = "}"

\* result.replace(new RegExp(..., 'g'), value): every match, left to right,
\* gives way to the value (the values of the model hold no "$").
RECURSIVE ReplacePlaceholder(_, _, _)
ReplacePlaceholder(s, key, value) ==
    LET matches == {i \in 1..Len(s) : PlaceholderAt(s, i, key)} IN
    IF matches = {}
    THEN s
    ELSE LET first == CHOOSE i \in matches : \A j \in matches : i <= j
         IN SubSeq(s, 1, first - 1) \o value
                \o ReplacePlaceholder(
                       SubSeq(s, first + Len(key) + 3, Len(s)), key, value)

\* The loop of formatTemplateString from the n-th key on.
RECURSIVE FormatFrom(_, _, _)
FormatFrom(result, placeholderValue, n) ==
    IF n > Len(PlaceholderKeys)
    THEN result
    ELSE FormatFrom(
             IF PlaceholderKeys[n] \in DOMAIN placeholderValue
             THEN ReplacePlaceholder(result, PlaceholderKeys[n],
                                     placeholderValue[PlaceholderKeys[n]])
             ELSE result,
             placeholderValue, n + 1)

formatTemplateString(template) ==
    FormatFrom(template.withPlaceholders, template.placeholderValue, 1)

\* The arguments of one call of validateNestedMessage.
NestedCall(parentTypeName, fieldPath, nestedMessage, nestedSchema, ifInvalidOption) ==
    [parentTypeName |-> parentTypeName, fieldPath |-> fieldPath,
     nestedMessage |-> nestedMessage, nestedSchema |-> nestedSchema,
     ifInvalidOption |-> ifInvalidOption]

\* A descent that does not stop at an unset message field: it goes on with
\* an empty instance of the field's type.
nestedCallsThroughUnset(registry, schema, message, field) ==
    IF field.fieldKind = "message" /\ hasOption(field, "validate")
    THEN <<NestedCall(schema.typeName, <<field.name>>,
               IF Truthy(FieldValue(message, field))
               THEN FieldValue(message, field)
               ELSE Msg(field.message,
                        [name |-> Str(""), parent |-> Undefined,
                         links |-> Arr(<<>>)]),
               SchemaOf(field.message), [present |-> FALSE, errorMsg |-> ""])>>
    ELSE <<>>

\* The calls of validateNestedMessage that validateFieldValidate makes for
\* `field`, in order: one per set nested value.
nestedCallsOfField(registry, schema, message, field) ==
    IF \/ ~getRegisteredOption(registry, "validate")
       \/ ~hasOption(field, "validate")
       \/ getOption(field, "validate") # TRUE
    THEN <<>>
    ELSE LET ifInvalidOption ==
                 IF /\ getRegisteredOption(registry, "if_invalid")
                    /\ hasOption(field, "if_invalid")
                 THEN [present |-> TRUE,
                       errorMsg |-> getOption(field, "if_invalid").errorMsg]
                 ELSE [present |-> FALSE, errorMsg |-> ""]
             fieldValue == FieldValue(message, field)
         IN CASE field.fieldKind = "message" ->
                   IF ~Truthy(fieldValue) \/ field.message = ""
                   THEN <<>>
                   ELSE <<NestedCall(schema.typeName, <<field.name>>, fieldValue,
                                     SchemaOf(field.message), ifInvalidOption)>>
              [] field.fieldKind = "list" ->
                   IF \/ fieldValue.t # "array"
                      \/ Len(fieldValue.xs) = 0
                      \/ field.listKind # "message"
                      \/ field.message = ""
                   THEN <<>>
                   ELSE Flatten([i \in 1..Len(fieldValue.xs) |->
                            IF Truthy(fieldValue.xs[i])
                            THEN <<NestedCall(schema.typeName,
                                       <<field.name, ToString(i - 1)>>,
                                       fieldValue.xs[i],
                                       SchemaOf(field.message), ifInvalidOption)>>
                            ELSE <<>>])
              [] field.fieldKind = "map" ->
                   IF \/ ~Truthy(fieldValue)
                      \/ Len(fieldValue.entries) = 0
                      \/ field.mapKind # "message"
                      \/ field.message = ""
                   THEN <<>>
                   ELSE Flatten([i \in 1..Len(fieldValue.entries) |->
                            IF Truthy(fieldValue.entries[i].value)
                            THEN <<NestedCall(schema.typeName,
                                       <<field.name, fieldValue.entries[i].key>>,
                                       fieldValue.entries[i].value,
                                       SchemaOf(field.message), ifInvalidOption)>>
                            ELSE <<>>])
              [] OTHER -> <<>>

\* The calls of validateNestedMessage that validateNestedFields makes.
nestedCalls(registry, schema, message) ==
    Flatten([i \in 1..Len(schema.fields) |->
        nestedCallsOfField(registry, schema, message, schema.fields[i])])

\* What validate appends before it calls validateNestedFields.
BeforeNested(registry, schema, message) ==
    validateRequiredFields(registry, schema, message)
        \o validatePatternFields(registry, schema, message)
        \o validateRequiredFieldOption(registry, schema, message)
        \o validateMinMaxFields(registry, schema, message)
        \o validateRangeFields(registry, schema, message)
        \o validateDistinctFields(registry, schema, message)

\* What validate appends after validateNestedFields.
AfterNested(registry, schema, message) ==
    validateGoesFields(registry, schema, message)
        \o validateChoiceFields(registry, schema, message)


(***************************************************************************)
(* The schemas and messages validate is run on.                            *)
(***************************************************************************)
\* One field of every kind, each flagged (required); `note` is flagged
\* (required) = false.
ProfileSchema ==
    Schema("spine.test.Profile",
        <<ScalarField("name", "name", ScalarType.STRING, [required |-> TRUE]),
          ScalarField("count", "count", ScalarType.INT32, [required |-> TRUE]),
          ScalarField("total", "total", ScalarType.INT64, [required |-> TRUE]),
          ScalarField("active", "active", ScalarType.BOOL, [required |-> TRUE]),
          EnumField("status", "status", [required |-> TRUE]),
          MessageField("owner", "owner", "spine.test.Person", [required |-> TRUE]),
          ScalarListField("tags", "tags", ScalarType.STRING,
              [required |-> TRUE, if_missing |-> [errorMsg |-> "Tags are needed."]]),
          ScalarMapField("attrs", "attrs", ScalarType.STRING, [required |-> TRUE]),
          ScalarField("payload", "payload", ScalarType.BYTES, [required |-> TRUE]),
          ScalarField("note", "note", ScalarType.STRING, [required |-> FALSE])>>,
        <<>>, NoMessageOptions)

\* Thresholds of every flavour around the values 0..2.
LimitsSchema ==
    Schema("spine.test.Limits",
        <<ScalarField("at_least", "atLeast", ScalarType.INT32,
              [min |-> Bound("1", FALSE)]),
          ScalarField("greater", "greater", ScalarType.INT32,
              [min |-> Bound("1", TRUE)]),
          ScalarField("at_most", "atMost", ScalarType.INT32,
              [max |-> Bound("1", FALSE)]),
          ScalarField("less", "less", ScalarType.DOUBLE,
              [max |-> Bound("1.0", TRUE)]),
          ScalarField("both", "both", ScalarType.INT64,
              [min |-> Bound("2", FALSE), max |-> Bound("0", FALSE)]),
          ScalarField("unparsed", "unparsed", ScalarType.INT32,
              [min |-> Bound("one", FALSE)])>>,
        <<>>, NoMessageOptions)

\* A numeral and the number it denotes.
Numeral(text, n) == [text |-> text, n |-> n]

\* Range options: brackets, bounds and the scalar type of the field.
RangeBounds ==
    {[lo |-> Numeral("0", 0), hi |-> Numeral("24", 24), scalar |-> ScalarType.INT32],
     [lo |-> Numeral("0.0", 0), hi |-> Numeral("180.0", 180),
      scalar |-> ScalarType.DOUBLE],
     [lo |-> Numeral("-1", 0 - 1), hi |-> Numeral("1", 1), scalar |-> ScalarType.INT64],
     [lo |-> Numeral("2", 2), hi |-> Numeral("2", 2), scalar |-> ScalarType.INT32]}

RangeCases ==
    {[open |-> o, close |-> c, lo |-> b.lo, hi |-> b.hi, scalar |-> b.scalar] :
        o \in {"[", "("}, c \in {"]", ")"}, b \in RangeBounds}

RangeText(case) ==
    case.open \o case.lo.text \o ".." \o case.hi.text \o case.close

RangeSchema(case) ==
    Schema("spine.test.Ranged",
        <<ScalarField("value", "value", case.scalar,
              [range |-> RangeText(case)])>>,
        <<>>, NoMessageOptions)

\* Range texts parseRange gives up on: too short, a missing or a wrong
\* bracket, no separator or two, a bound that is no number, and a minimum
\* above the maximum.
MalformedRanges ==
    {"[..]", "[1..5", "1..5]", "{1..5}", "[1-5]", "[1..3..5]", "[a..5]",
     "[1..b]", "[5..1]", "(5..1)"}

\* The same malformed range on a singular integer field, a singular double
\* field and a repeated field.
GaugeSchema(rangeStr) ==
    Schema("spine.test.Gauge",
        <<ScalarField("level", "level", ScalarType.INT32, [range |-> rangeStr]),
          ScalarField("rate", "rate", ScalarType.DOUBLE, [range |-> rangeStr]),
          ScalarListField("samples", "samples", ScalarType.INT32,
              [range |-> rangeStr])>>,
        <<>>, NoMessageOptions)

\* (distinct) on a repeated number field; `labels` is the control without it.
TagsSchema ==
    Schema("spine.test.Tags",
        <<ScalarListField("numbers", "numbers", ScalarType.INT32,
              [distinct |-> TRUE]),
          ScalarListField("labels", "labels", ScalarType.STRING,
              [distinct |-> FALSE])>>,
        <<>>, NoMessageOptions)

\* A mutual (goes) pair.
ColorSettingsSchema ==
    Schema("spine.test.ColorSettings",
        <<ScalarField("text_color", "textColor", ScalarType.STRING,
              [goes |-> Goes("highlight_color")]),
          ScalarField("highlight_color", "highlightColor", ScalarType.STRING,
              [goes |-> Goes("text_color")])>>,
        <<>>, NoMessageOptions)

\* (goes) towards a field that has a (pattern) of its own.
ScheduledEventSchema ==
    Schema("spine.test.ScheduledEvent",
        <<ScalarField("date", "date", ScalarType.STRING,
              [pattern |-> Pattern(NameRegex, "", NoModifier)]),
          ScalarField("time", "time", ScalarType.STRING,
              [goes |-> Goes("date")])>>,
        <<>>, NoMessageOptions)

\* (goes) from and towards fields of every kind.
DependenciesSchema ==
    Schema("spine.test.Dependencies",
        <<ScalarField("base_url", "baseUrl", ScalarType.STRING, NoOptions),
          ScalarField("port", "port", ScalarType.INT32, [goes |-> Goes("base_url")]),
          ScalarField("retries", "retries", ScalarType.INT64,
              [goes |-> Goes("base_url")]),
          ScalarListField("mirrors", "mirrors", ScalarType.STRING,
              [goes |-> Goes("base_url")]),
          MessageField("owner", "owner", "spine.test.Person",
              [goes |-> Goes("base_url")]),
          ScalarField("quota", "quota", ScalarType.INT64, NoOptions),
          ScalarField("quota_unit", "quotaUnit", ScalarType.STRING,
              [goes |-> Goes("quota")]),
          ScalarListField("hosts", "hosts", ScalarType.STRING, NoOptions),
          ScalarField("host_policy", "hostPolicy", ScalarType.STRING,
              [goes |-> Goes("hosts")])>>,
        <<>>, NoMessageOptions)

\* A regex that does not compile, on a singular and on a repeated field.
HandleSchema ==
    Schema("spine.test.Handle",
        <<ScalarField("alias", "alias", ScalarType.STRING,
              [pattern |-> Pattern(MalformedRegex, "", NoModifier)]),
          ScalarListField("nicknames", "nicknames", ScalarType.STRING,
              [pattern |-> Pattern(MalformedRegex, "", NoModifier)])>>,
        <<>>, NoMessageOptions)

\* (goes).with names a field the type does not have.
DanglingSchema ==
    Schema("spine.test.Dangling",
        <<ScalarField("note", "note", ScalarType.STRING, [goes |-> Goes("nowhere")]),
          ScalarField("size", "size", ScalarType.INT64, [goes |-> Goes("nowhere")]),
          ScalarListField("tags", "tags", ScalarType.STRING,
              [goes |-> Goes("nowhere")])>>,
        <<>>, NoMessageOptions)

\* A oneof group flagged (choice).required.
Oneof(name, localName, options) ==
    [name |-> name, localName |-> localName, options |-> options]

PaymentMethodSchema ==
    Schema("spine.test.PaymentMethod",
        <<ScalarField("card_number", "cardNumber", ScalarType.STRING, NoOptions),
          ScalarField("iban", "iban", ScalarType.STRING, NoOptions),
          ScalarField("email", "email", ScalarType.STRING, NoOptions),
          ScalarField("voucher", "voucher", ScalarType.STRING, NoOptions)>>,
        <<Oneof("method", "method",
              [choice |-> [required |-> TRUE, errorMsg |-> ""]]),
          Oneof("contact", "contact",
              [choice |-> [required |-> FALSE, errorMsg |-> ""]]),
          Oneof("extra", "extra", NoOptions)>>,
        NoMessageOptions)

\* A field that carries (set_once), an option no registry holds.
TicketSchema ==
    Schema("spine.test.Ticket",
        <<ScalarField("id", "id", ScalarType.STRING, [set_once |-> TRUE])>>,
        <<>>, NoMessageOptions)

\* map<string, string> preferences = 6 [(distinct) = true]
PreferencesSchema ==
    Schema("spine.test.Preferences",
        <<ScalarMapField("preferences", "preferences", ScalarType.STRING,
              [distinct |-> TRUE])>>,
        <<>>, NoMessageOptions)

\* (pattern), (min)/(max) and (range) on repeated scalar fields.
ReadingsSchema ==
    Schema("spine.test.Readings",
        <<ScalarListField("names", "names", ScalarType.STRING,
              [pattern |-> Pattern(NameRegex, "", NoModifier)]),
          ScalarListField("scores", "scores", ScalarType.INT32,
              [min |-> Bound("1", FALSE), max |-> Bound("2", FALSE)]),
          ScalarListField("hours", "hours", ScalarType.INT32,
              [range |-> "[1..2]"])>>,
        <<>>, NoMessageOptions)

(***************************************************************************)
(* Field-combination expressions.  An expression is built as a tree, so    *)
(* that its meaning is known apart from its text; the text is what the     *)
(* schema carries and the program parses.                                  *)
(***************************************************************************)
NameFields == <<"given_name", "honorific_prefix", "family_name">>

FieldAtom(name) == [op |-> "field", name |-> name]

Operators == {"&", "|"}
Node(op, l, r) == [op |-> op, l |-> l, r |-> r]

\* Trees over one, two and three fields, the fields in declaration order.
ExpressionTrees ==
    LET a == FieldAtom(NameFields[1])
        b == FieldAtom(NameFields[2])
        c == FieldAtom(NameFields[3])
    IN {a, b, c}
       \cup {Node(o, p[1], p[2]) : o \in Operators,
                                   p \in {<<a, b>>, <<b, c>>, <<a, c>>, <<c, a>>}}
       \cup {Node(o1, Node(o2, a, b), c) : o1 \in Operators, o2 \in Operators}
       \cup {Node(o1, a, Node(o2, b, c)) : o1 \in Operators, o2 \in Operators}

\* The text of a tree.  "spaced" and "dense" put parentheses only where the
\* grammar needs them; "full" puts them around every operation.
Styles == {"spaced", "dense", "full"}

Sep(op, style) == IF style = "dense" THEN op ELSE " " \o op \o " "

\* A tree as an operand of `&` (level 2), of `|` (level 1), or alone (level 0).
RECURSIVE TextAt(_, _, _)
TextAt(tree, style, level) ==
    IF tree.op = "field"
    THEN tree.name
    ELSE LET inner ==
                 IF tree.op = "|"
                 THEN TextAt(tree.l, style, IF tree.l.op = "|" THEN 0 ELSE 1)
                          \o Sep("|", style) \o TextAt(tree.r, style, 1)
                 ELSE TextAt(tree.l, style, IF tree.l.op = "&" THEN 1 ELSE 2)
                          \o Sep("&", style) \o TextAt(tree.r, style, 2)
             needed == \/ style = "full"
                       \/ level = 2
                       \/ (level = 1 /\ tree.op = "|")
         IN IF needed THEN "(" \o inner \o ")" ELSE inner
Text(tree, style) == TextAt(tree, style, 0)

\* An expression of more than 127 characters: given_name or any of many
\* alternatives.
Alternatives == 10

RECURSIVE OrChain(_)
OrChain(n) ==
    IF n = 0 THEN FieldAtom(NameFields[1])
    ELSE Node("|", OrChain(n - 1), FieldAtom(NameFields[3]))

LongTree == OrChain(Alternatives)
LongExpression == Text(LongTree, "spaced")

\* The expressions the schemas carry: a tree and the style of its text.
StyledTrees ==
    {[tree |-> tree, style |-> style] : tree \in ExpressionTrees, style \in Styles}
        \cup {[tree |-> LongTree, style |-> "spaced"]}

Expressions == {Text(e.tree, e.style) : e \in StyledTrees}

ExpressionSchema(expression) ==
    Schema("spine.test.PersonName",
        <<ScalarField("given_name", "givenName", ScalarType.STRING, NoOptions),
          ScalarField("honorific_prefix", "honorificPrefix", ScalarType.STRING,
              NoOptions),
          ScalarField("family_name", "familyName", ScalarType.STRING, NoOptions)>>,
        <<>>, RequiredFieldOption(expression))

\* Expressions with an atom that names no field of the type.
UnknownAtomExpressions == {"unknown | family_name", "unknown & family_name"}

\* A type with one field of every kind; its expression names one of them.
AccountFields ==
    <<ScalarField("login", "login", ScalarType.STRING, NoOptions),
      ScalarField("avatar", "avatar", ScalarType.BYTES, NoOptions),
      ScalarField("visits", "visits", ScalarType.INT32, NoOptions),
      ScalarField("balance", "balance", ScalarType.INT64, NoOptions),
      ScalarField("ratio", "ratio", ScalarType.DOUBLE, NoOptions),
      ScalarField("verified", "verified", ScalarType.BOOL, NoOptions),
      MessageField("owner", "owner", "spine.test.Person", NoOptions),
      EnumField("plan", "plan", NoOptions),
      ScalarListField("aliases", "aliases", ScalarType.STRING, NoOptions),
      ScalarMapField("limits", "limits", ScalarType.STRING, NoOptions)>>

AccountSchema(expression) ==
    Schema("spine.test.Account", AccountFields, <<>>,
        RequiredFieldOption(expression))

AccountExpressions == {AccountFields[i].name : i \in 1..Len(AccountFields)}

(***************************************************************************)
(* Messages.                                                               *)
(***************************************************************************)
Person(name, age) ==
    Msg("spine.test.Person", [name |-> Str(name), age |-> Num(age)])

\* A valid person, one with one violation and one with two.
Persons == {Person("Al", 7), Person("", 7), Person("", 0 - 1)}

MapKeys == {"dev", "ops"}

\* Object.entries of a map: entries with pairwise different keys.
MapsOf(values) ==
    {Obj(es) : es \in {e \in SeqsUpTo([key : MapKeys, value : values],
                                      Cardinality(MapKeys)) :
                          \A i, j \in 1..Len(e) : i # j => e[i].key # e[j].key}}

TeamMessages ==
    {Msg("spine.test.Team", [lead |-> l, members |-> Arr(m), deputy |-> d]) :
        l \in Persons \cup {Undefined},
        m \in SeqsUpTo(Persons \cup {Undefined}, MaxLen),
        d \in {Undefined, Person("", 7)}}

DirectoryMessages ==
    {Msg("spine.test.Directory", [byRole |-> m]) :
        m \in MapsOf(Persons \cup {Undefined})}

ProfileMessages ==
    {Msg("spine.test.Profile",
         [name |-> n, count |-> c, total |-> t, active |-> a, status |-> s,
          owner |-> o, tags |-> g, attrs |-> m, payload |-> p, note |-> Str("")]) :
        n \in {Str(""), Str("Al")}, c \in {Num(0), Num(5)},
        t \in {Big(0), Big(5)}, a \in {Bool(FALSE), Bool(TRUE)},
        s \in {Num(0), Num(1)}, o \in {Undefined, Person("Al", 7)},
        g \in {Arr(<<>>), Arr(<<Str("x")>>)},
        m \in {Obj(<<>>), Obj(<<[key |-> "dev", value |-> Str("x")]>>)},
        p \in {Bytes(0), Bytes(2)}}

LimitValues == 0..2

LimitsMessages ==
    {Msg("spine.test.Limits",
         [atLeast |-> Num(l), greater |-> Num(g), atMost |-> Num(m),
          less |-> Num(s), both |-> Big(b), unparsed |-> Num(0)]) :
        l \in LimitValues, g \in LimitValues, m \in LimitValues,
        s \in LimitValues, b \in LimitValues}

\* Values at, next to and away from every bound of RangeBounds.
RangeValues == {0 - 2, 0 - 1, 0, 1, 2, 3, 23, 24, 25, 179, 180, 181}

RangedMessages(scalar) ==
    {Msg("spine.test.Ranged",
         [value |-> IF scalar = ScalarType.INT64 THEN Big(v) ELSE Num(v)]) :
        v \in RangeValues}

Elements == 1..3

\* The lists of the specification's examples, longer than MaxLen.
ExampleLists == {<<1, 2, 1, 3, 2, 4>>, <<1, 1, 1>>}

NumberLists == SeqsUpTo(Elements, MaxLen) \cup ExampleLists

TagsMessages ==
    {Msg("spine.test.Tags",
         [numbers |-> Arr([i \in 1..Len(xs) |-> Num(xs[i])]),
          labels |-> Arr(<<Str("x"), Str("x")>>)]) :
        xs \in NumberLists}

ColorSettingsMessages ==
    {Msg("spine.test.ColorSettings",
         [textColor |-> Str(t), highlightColor |-> Str(h)]) :
        t \in {"", "red"}, h \in {"", "blue"}}

\* "mon" is set and does not match the pattern of `date`.
ScheduledEventMessages ==
    {Msg("spine.test.ScheduledEvent", [date |-> Str(d), time |-> Str(t)]) :
        d \in {"", "Mon", "mon"}, t \in {"", "noon"}}

DependenciesMessages ==
    {Msg("spine.test.Dependencies",
         [baseUrl |-> Str(u), port |-> Num(p), retries |-> Big(r),
          mirrors |-> Arr(m), owner |-> o, quota |-> Big(q),
          quotaUnit |-> Str(qu), hosts |-> Arr(h), hostPolicy |-> Str(hp)]) :
        u \in {"", "http"}, p \in {0, 80}, r \in {0, 3},
        m \in {<<>>, <<Str("m")>>}, o \in {Undefined, Person("Al", 7)},
        q \in {0, 9}, qu \in {"", "GB"}, h \in {<<>>, <<Str("h")>>},
        hp \in {"", "any"}}

\* message.method is { case, value }; the member fields themselves read
\* undefined.
OneofValue(case, value) == [t |-> "oneof", case |-> case, value |-> value]
NoCase == OneofValue("", Undefined)

PaymentMethodMessages ==
    {Msg("spine.test.PaymentMethod",
         [method |-> m, contact |-> c, extra |-> e, cardNumber |-> Undefined,
          iban |-> Undefined, email |-> Undefined, voucher |-> Undefined]) :
        m \in {NoCase, OneofValue("cardNumber", Str("4111"))},
        c \in {NoCase, OneofValue("email", Str("a@b.c"))},
        e \in {NoCase, OneofValue("voucher", Str("v1"))}}

DanglingMessages ==
    {Msg("spine.test.Dangling", [note |-> Str(n), size |-> Big(z), tags |-> Arr(t)]) :
        n \in {"", "memo"}, z \in {0, 5}, t \in {<<>>, <<Str("t")>>}}

GaugeMessages ==
    {Msg("spine.test.Gauge",
         [level |-> Num(v), rate |-> Num(v),
          samples |-> Arr([i \in 1..Len(xs) |-> Num(xs[i])])]) :
        v \in {0, 3, 9}, xs \in {<<>>, <<3>>, <<0, 9>>}}

TicketMessages ==
    {Msg("spine.test.Ticket", [id |-> Str(i)]) : i \in {"", "T-1", "T-2"}}

\* (distinct) on a map field.
PreferencesMessages ==
    {Msg("spine.test.Preferences", [preferences |-> m]) :
        m \in MapsOf({Str("dark"), Str("light")})}

ListLen == 2

Readings(names, numbers) ==
    Msg("spine.test.Readings",
        [names |-> Arr([i \in 1..Len(names) |-> Str(names[i])]),
         scores |-> Arr([i \in 1..Len(numbers) |-> Num(numbers[i])]),
         hours |-> Arr([i \in 1..Len(numbers) |-> Num(numbers[i])])])

\* Lists of names beside one offending number, and lists of numbers, held by
\* both numeric fields, beside one offending name.
ReadingsMessages ==
    {Readings(ns, <<0>>) : ns \in SeqsUpTo({"", "Mon", "mon"}, ListLen)}
        \cup {Readings(<<"mon">>, ss) : ss \in SeqsUpTo({0, 2, 3}, ListLen)}

Folder(name, parent, links) ==
    Msg("spine.test.Folder",
        [name |-> Str(name), parent |-> parent, links |-> Arr(links)])

\* Folders without a parent, linking nothing or one such folder.
FolderLeaves == {Folder(n, Undefined, <<>>) : n \in {"", "tmp"}}

MaxDepth == 2

\* Folders under a chain of at most `depth` parents.
RECURSIVE FolderMessages(_)
FolderMessages(depth) ==
    {Folder(n, p, l) :
        n \in {"", "tmp"},
        p \in IF depth = 0 THEN {Undefined}
               ELSE {Undefined} \cup FolderMessages(depth - 1),
        l \in SeqsUpTo(FolderLeaves, 1)}

HandleMessages ==
    {Msg("spine.test.Handle",
         [alias |-> Str(a), nicknames |-> Arr([i \in 1..Len(ns) |-> Str(ns[i])])]) :
        a \in {"", "Al", "al"}, ns \in SeqsUpTo({"", "Al"}, ListLen)}

\* An account with every field at its default, and the accounts that
\* differ from it in one field.
DefaultAccount ==
    [login |-> Str(""), avatar |-> Bytes(0), visits |-> Num(0),
     balance |-> Big(0), ratio |-> Num(0), verified |-> Bool(FALSE),
     owner |-> Undefined, plan |-> Num(0), aliases |-> Arr(<<>>),
     limits |-> Obj(<<>>)]

FilledAccount ==
    [login |-> Str("al"), avatar |-> Bytes(1), visits |-> Num(1),
     balance |-> Big(1), ratio |-> Num(1), verified |-> Bool(TRUE),
     owner |-> Person("Al", 7), plan |-> Num(1),
     aliases |-> Arr(<<Str("x")>>),
     limits |-> Obj(<<[key |-> "k", value |-> Str("v")]>>)]

AccountMessages ==
    {Msg("spine.test.Account", DefaultAccount)}
        \cup {Msg("spine.test.Account",
                  [DefaultAccount EXCEPT ![name] = FilledAccount[name]]) :
                 name \in DOMAIN DefaultAccount}

PersonNameMessages ==
    {Msg("spine.test.PersonName",
         [givenName |-> Str(g), honorificPrefix |-> Str(h), familyName |-> Str(f)]) :
        g \in {"", "Ann"}, h \in {"", "Dr"}, f \in {"", "Lee"}}


(***************************************************************************)
(* One run of validate(schema, message) as a state machine.                *)
(***************************************************************************)
VARIABLES
    optionRegistry,  \* the registered options (module state of the registry)
    schema,          \* the schema validate was called with
    message,         \* the message validate was called with
    violations,      \* const violations: ConstraintViolation[]
    pc,              \* the validator validate calls next
    results,         \* what the callers got: the calls that returned so far
    stack            \* the calls of validate in progress, when followed one by one

vars == <<optionRegistry, schema, message, violations, pc, results, stack>>

RootSchemas ==
    {TeamSchema, DirectorySchema, ProfileSchema, LimitsSchema, TagsSchema,
     ColorSettingsSchema, ScheduledEventSchema, DependenciesSchema,
     PaymentMethodSchema, ReadingsSchema, FolderSchema, PreferencesSchema,
     TicketSchema, DanglingSchema, HandleSchema}
        \cup {RangeSchema(case) : case \in RangeCases}
        \cup {ExpressionSchema(expression) : expression \in Expressions}
        \cup {ExpressionSchema(expression) : expression \in UnknownAtomExpressions}
        \cup {AccountSchema(expression) : expression \in AccountExpressions}
        \cup {GaugeSchema(rangeStr) : rangeStr \in MalformedRanges}

MessagesOf(root) ==
    CASE root.typeName = "spine.test.Team" -> TeamMessages
      [] root.typeName = "spine.test.Directory" -> DirectoryMessages
      [] root.typeName = "spine.test.Profile" -> ProfileMessages
      [] root.typeName = "spine.test.Limits" -> LimitsMessages
      [] root.typeName = "spine.test.Tags" -> TagsMessages
      [] root.typeName = "spine.test.ColorSettings" -> ColorSettingsMessages
      [] root.typeName = "spine.test.ScheduledEvent" -> ScheduledEventMessages
      [] root.typeName = "spine.test.Dependencies" -> DependenciesMessages
      [] root.typeName = "spine.test.PaymentMethod" -> PaymentMethodMessages
      [] root.typeName = "spine.test.Ranged" -> RangedMessages(root.fields[1].scalar)
      [] root.typeName = "spine.test.Readings" -> ReadingsMessages
      [] root.typeName = "spine.test.Preferences" -> PreferencesMessages
      [] root.typeName = "spine.test.Ticket" -> TicketMessages
      [] root.typeName = "spine.test.Folder" -> FolderMessages(MaxDepth)
      [] root.typeName = "spine.test.PersonName" -> PersonNameMessages
      [] root.typeName = "spine.test.Account" -> AccountMessages
      [] root.typeName = "spine.test.Dangling" -> DanglingMessages
      [] root.typeName = "spine.test.Gauge" -> GaugeMessages
      [] root.typeName = "spine.test.Handle" -> HandleMessages

Init ==
    /\ optionRegistry \in {RegistryWithRequiredField, RegistryWithChoice}
    /\ schema \in RootSchemas
    /\ message \in MessagesOf(schema)
    /\ violations = <<>>
    /\ pc = "validateRequiredFields"
    /\ results = {}
    /\ stack = <<>>

\* The calls that returned, with the call that returns `returned` now:
\* `again` tells that the same schema and message were validated before.
Record(returned) ==
    results \cup
        {[schema |-> schema, message |-> message, violations |-> returned,
          again |-> \E r \in results :
                       r.schema = schema /\ r.message = message]}

\* A step of validate that reads the message and the schema, writes the
\* message `written` back and appends `found`.
StepWriting(step, found, next, written) ==
    /\ pc = step
    /\ violations' = violations \o found
    /\ pc' = next
    /\ message' = written
    /\ results' = IF next = "return" THEN Record(violations') ELSE results
    /\ UNCHANGED <<optionRegistry, schema, stack>>

\* The registry stripped of `choice` once validate is about to return.
StepUnregistering(step, found, next) ==
    /\ pc = step
    /\ violations' = violations \o found
    /\ pc' = next
    /\ optionRegistry' =
           IF next = "return" THEN optionRegistry \ {"choice"} ELSE optionRegistry
    /\ results' = IF next = "return" THEN Record(violations') ELSE results
    /\ UNCHANGED <<schema, message, stack>>

\* The lists of the message emptied once validate is about to return.
StepEmptyingLists(step, found, next) ==
    StepWriting(step, found, next,
        IF next = "return"
        THEN [message EXCEPT !.f =
                 [name \in DOMAIN message.f |->
                     IF message.f[name].t = "array" THEN Arr(<<>>)
                     ELSE message.f[name]]]
        ELSE message)

\* A validator that puts what it found in front of the list.
StepPrepending(step, found, next) ==
    /\ pc = step
    /\ violations' = found \o violations
    /\ pc' = next
    /\ results' = IF next = "return" THEN Record(violations') ELSE results
    /\ UNCHANGED <<optionRegistry, schema, message, stack>>

\* A step of validate: the validator `step` appends `found`, `next` follows;
\* no validator writes to the message, the schema or the registry.
Step(step, found, next) == StepWriting(step, found, next, message)

ValidateRequiredFields ==
    Step("validateRequiredFields",
         validateRequiredFields(optionRegistry, schema, message),
         "validatePatternFields")

ValidatePatternFields ==
    Step("validatePatternFields",
         validatePatternFields(optionRegistry, schema, message),
         "validateRequiredFieldOption")

ValidateRequiredFieldOption ==
    Step("validateRequiredFieldOption",
         validateRequiredFieldOption(optionRegistry, schema, message),
         "validateMinMaxFields")

ValidateMinMaxFields ==
    Step("validateMinMaxFields",
         validateMinMaxFields(optionRegistry, schema, message),
         "validateRangeFields")

ValidateRangeFields ==
    Step("validateRangeFields",
         validateRangeFields(optionRegistry, schema, message),
         "validateDistinctFields")

ValidateDistinctFields ==
    Step("validateDistinctFields",
         validateDistinctFields(optionRegistry, schema, message),
         "validateNestedFields")

ValidateNestedFields ==
    Step("validateNestedFields",
         validateNestedFields(optionRegistry, schema, message),
         "validateGoesFields")

ValidateGoesFields ==
    Step("validateGoesFields",
         validateGoesFields(optionRegistry, schema, message),
         "validateChoiceFields")

ValidateChoiceFields ==
    Step("validateChoiceFields",
         validateChoiceFields(optionRegistry, schema, message),
         "return")

Next ==
    \/ ValidateRequiredFields
    \/ ValidatePatternFields
    \/ ValidateRequiredFieldOption
    \/ ValidateMinMaxFields
    \/ ValidateRangeFields
    \/ ValidateDistinctFields
    \/ ValidateNestedFields
    \/ ValidateGoesFields
    \/ ValidateChoiceFields

Spec == Init /\ [][Next]_vars

(***************************************************************************)
(* validate followed call by call.  Each call in progress is a frame: the  *)
(* arguments validateNestedMessage was called with (for the outermost call *)
(* the schema and message of the caller), the violations the call found so *)
(* far, and the nested calls it has still to make.                         *)
(***************************************************************************)
\* validate(call.nestedSchema, call.nestedMessage) up to validateNestedFields.
Frame(registry, call) ==
    [call |-> call,
     found |-> BeforeNested(registry, call.nestedSchema, call.nestedMessage),
     pending |-> nestedCalls(registry, call.nestedSchema, call.nestedMessage)]

DescentSchemas == {DirectorySchema, FolderSchema}

InitDescent ==
    /\ optionRegistry \in {RegistryWithRequiredField, RegistryWithChoice}
    /\ schema \in DescentSchemas
    /\ message \in MessagesOf(schema)
    /\ violations = <<>>
    /\ pc = "validate"
    /\ results = {}
    /\ stack = <<Frame(optionRegistry,
                       NestedCall("", <<>>, message, schema,
                                  [present |-> FALSE, errorMsg |-> ""]))>>

\* validateNestedMessage calls validate on the next set nested value.
Descend ==
    /\ pc = "validate"
    /\ Len(stack) > 0
    /\ Len(stack[Len(stack)].pending) > 0
    /\ stack' = Append(stack,
                    Frame(optionRegistry, Head(stack[Len(stack)].pending)))
    /\ UNCHANGED <<optionRegistry, schema, message, violations, pc, results>>

\* The violations a call returns once its nested calls are done.
ReturnedBy(frame) ==
    frame.found
        \o AfterNested(optionRegistry, frame.call.nestedSchema,
                       frame.call.nestedMessage)

\* A nested validate returns; validateNestedMessage pushes to the
\* violations of its caller.
ReturnNested ==
    /\ pc = "validate"
    /\ Len(stack) > 1
    /\ Len(stack[Len(stack)].pending) = 0
    /\ stack' =
           [i \in 1..(Len(stack) - 1) |->
               IF i < Len(stack) - 1
               THEN stack[i]
               ELSE [stack[i] EXCEPT
                        !.found = @ \o NestedPushes(
                            stack[Len(stack)].call.parentTypeName,
                            stack[Len(stack)].call.fieldPath,
                            stack[Len(stack)].call.nestedMessage,
                            stack[Len(stack)].call.ifInvalidOption,
                            ReturnedBy(stack[Len(stack)])),
                        !.pending = Tail(@)]]
    /\ UNCHANGED <<optionRegistry, schema, message, violations, pc, results>>

\* The outermost validate returns to the caller.
ReturnRoot ==
    /\ pc = "validate"
    /\ Len(stack) = 1
    /\ Len(stack[1].pending) = 0
    /\ violations' = ReturnedBy(stack[1])
    /\ pc' = "return"
    /\ stack' = <<>>
    /\ results' = Record(violations')
    /\ UNCHANGED <<optionRegistry, schema, message>>

NextDescent ==
    \/ Descend
    \/ ReturnNested
    \/ ReturnRoot

\* validate is sequential code: a call that can go on does go on.
SpecDescent == InitDescent /\ [][NextDescent]_vars /\ WF_vars(NextDescent)

(***************************************************************************)
(* A program that calls validate again and again: after a call returned,   *)
(* the next one starts with any of the inputs below.                       *)
(***************************************************************************)
CallInputs ==
    {<<PaymentMethodSchema,
       Msg("spine.test.PaymentMethod",
           [method |-> NoCase, contact |-> NoCase, extra |-> NoCase,
            cardNumber |-> Undefined, iban |-> Undefined, email |-> Undefined,
            voucher |-> Undefined])>>,
     <<TeamSchema,
       Msg("spine.test.Team",
           [lead |-> Person("", 7), members |-> Arr(<<Person("Al", 7)>>),
            deputy |-> Undefined])>>,
     <<DirectorySchema,
       Msg("spine.test.Directory",
           [byRole |-> Obj(<<[key |-> "dev", value |-> Person("", 7)]>>)])>>,
     <<TagsSchema,
       Msg("spine.test.Tags",
           [numbers |-> Arr(<<Num(1), Num(1)>>),
            labels |-> Arr(<<Str("x"), Str("x")>>)])>>,
     <<ScheduledEventSchema,
       Msg("spine.test.ScheduledEvent", [date |-> Str("mon"), time |-> Str("")])>>,
     <<ExpressionSchema("given_name | family_name"),
       Msg("spine.test.PersonName",
           [givenName |-> Str(""), honorificPrefix |-> Str(""),
            familyName |-> Str("")])>>,
     <<FolderSchema, Folder("tmp", Folder("", Undefined, <<>>), <<>>)>>}

InitCalls ==
    /\ optionRegistry \in {RegistryWithRequiredField, RegistryWithChoice}
    /\ \E input \in CallInputs :
           /\ schema = input[1]
           /\ message = input[2]
    /\ violations = <<>>
    /\ pc = "validateRequiredFields"
    /\ results = {}
    /\ stack = <<>>

\* The caller calls validate once more.
CallAgain ==
    /\ pc = "return"
    /\ \E input \in CallInputs :
           /\ schema' = input[1]
           /\ message' = input[2]
    /\ violations' = <<>>
    /\ pc' = "validateRequiredFields"
    /\ UNCHANGED <<optionRegistry, results, stack>>

NextCalls ==
    \/ ValidateRequiredFields
    \/ ValidatePatternFields
    \/ ValidateRequiredFieldOption
    \/ ValidateMinMaxFields
    \/ ValidateRangeFields
    \/ ValidateDistinctFields
    \/ ValidateNestedFields
    \/ ValidateGoesFields
    \/ ValidateChoiceFields
    \/ CallAgain

SpecCalls == InitCalls /\ [][NextCalls]_vars

\* validate has returned `violations`.
Returned == pc = "return"

\* The run agrees with validate as a function.
ReturnsValidate ==
    Returned => violations = validate(optionRegistry, schema, message)


(***************************************************************************)
(* Nested validation                                                       *)
(***************************************************************************)
\* The nested messages a (validate) field holds, each with its path P: the
\* singular value, the elements of a list, the values of a map, when non-null.
NestedVisitsOf(field, msg) ==
    LET fieldValue == FieldValue(msg, field) IN
    IF ~(hasOption(field, "validate") /\ getOption(field, "validate") = TRUE)
    THEN <<>>
    ELSE CASE field.fieldKind = "message" ->
                 IF fieldValue = Undefined THEN <<>>
                 ELSE <<[path |-> <<field.name>>, nested |-> fieldValue,
                         type |-> field.message]>>
           [] field.fieldKind = "list" ->
                 Flatten([i \in 1..Len(fieldValue.xs) |->
                     IF fieldValue.xs[i] = Undefined THEN <<>>
                     ELSE <<[path |-> <<field.name, ToString(i - 1)>>,
                             nested |-> fieldValue.xs[i],
                             type |-> field.message]>>])
           [] field.fieldKind = "map" ->
                 Flatten([i \in 1..Len(fieldValue.entries) |->
                     IF fieldValue.entries[i].value = Undefined THEN <<>>
                     ELSE <<[path |-> <<field.name, fieldValue.entries[i].key>>,
                             nested |-> fieldValue.entries[i].value,
                             type |-> field.message]>>])
           [] OTHER -> <<>>

NestedVisits(root, msg) ==
    Flatten([i \in 1..Len(root.fields) |-> NestedVisitsOf(root.fields[i], msg)])

\* What a visit must append: nothing, or the parent-level entry at P and
\* the nested violations with P in front of their paths.
ExpectedOfVisit(visit) ==
    LET nested == validate(optionRegistry, SchemaOf(visit.type), visit.nested) IN
    IF Len(nested) = 0
    THEN <<>>
    ELSE <<[parent |-> TRUE, path |-> visit.path, violation |-> Undefined]>>
         \o [i \in 1..Len(nested) |->
                [parent |-> FALSE, path |-> visit.path \o nested[i].fieldPath,
                 violation |-> nested[i]]]

ExpectedNested ==
    LET visits == NestedVisits(schema, message)
    IN Flatten([i \in 1..Len(visits) |-> ExpectedOfVisit(visits[i])])

MatchesExpected(violation, expected) ==
    /\ violation.fieldPath = expected.path
    /\ IF expected.parent
       THEN violation.typeName = schema.typeName
       ELSE /\ violation.typeName = expected.violation.typeName
            /\ violation.message = expected.violation.message

NestedSchemas == {TeamSchema, DirectorySchema}

NameIsSet(msg, name) ==
    \E i \in 1..Len(ExpressionSchema("").fields) :
        /\ ExpressionSchema("").fields[i].name = name
        /\ msg.f[ExpressionSchema("").fields[i].localName].s # ""

\* The value of a tree: `&` is conjunction, `|` is disjunction.
RECURSIVE Holds(_, _)
Holds(tree, msg) ==
    CASE tree.op = "field" -> NameIsSet(msg, tree.name)
      [] tree.op = "&" -> Holds(tree.l, msg) /\ Holds(tree.r, msg)
      [] tree.op = "|" -> Holds(tree.l, msg) \/ Holds(tree.r, msg)

\* C2: evaluateExpression gives the text of every expression tree the value
\* of the tree: `&` binds tighter than `|`, parentheses override, for every
\* assignment of set and unset to the fields.
ExpressionEqualsReference ==
    \A e \in StyledTrees :
        schema = ExpressionSchema(Text(e.tree, e.style)) =>
            evaluateExpression(Text(e.tree, e.style), message, schema)
                = Holds(e.tree, message)

\* given_name | honorific_prefix & family_name with only given_name set has
\* been evaluated to true; read as (a | b) & c it would be false.
ExpressionWitness ==
    /\ pc = "validateMinMaxFields"
    /\ optionRegistry = RegistryWithRequiredField
    /\ schema = ExpressionSchema("given_name | honorific_prefix & family_name")
    /\ message.f.givenName = Str("Ann")
    /\ message.f.honorificPrefix = Str("")
    /\ message.f.familyName = Str("")
    /\ violations = <<>>

\* The message-level violations of the list that carry `expression`.
ExpressionViolations(expression) ==
    {i \in 1..Len(violations) :
        /\ violations[i].fieldPath = <<>>
        /\ "expression" \in DOMAIN violations[i].message.placeholderValue
        /\ violations[i].message.placeholderValue.expression = expression}

MessageLevelViolations ==
    {i \in 1..Len(violations) : violations[i].fieldPath = <<>>}

\* C3: for a type that carries a field-combination expression, the result
\* of validate holds exactly one violation with an empty path, carrying the
\* original expression text, when the expression is false, and no
\* message-level violation when it is true.
ExpressionViolationIsEmitted ==
    Returned =>
        \A e \in StyledTrees :
            schema = ExpressionSchema(Text(e.tree, e.style)) =>
                IF Holds(e.tree, message)
                THEN MessageLevelViolations = {}
                ELSE /\ Cardinality(MessageLevelViolations) = 1
                     /\ ExpressionViolations(Text(e.tree, e.style))
                            = MessageLevelViolations


(***************************************************************************)
(* Required                                                                *)
(***************************************************************************)
\* The violations of the list at the path `path`.
ViolationsAt(path) ==
    {i \in 1..Len(violations) : violations[i].fieldPath = path}

\* validateRequiredFields has just run on a profile.
RequiredChecked == pc = "validatePatternFields" /\ schema = ProfileSchema

\* Exactly one violation at [fieldName] when `unset`, none otherwise.
FlaggedIff(fieldName, unset) ==
    Cardinality(ViolationsAt(<<fieldName>>)) = IF unset THEN 1 ELSE 0

\* C4: a required string, numeric, message or list field yields exactly one
\* violation at [fieldName] iff it is unset (empty string, zero, null
\* message, empty list) and none otherwise; a required number 0 is flagged.
RequiredFlagsUnsetFields ==
    RequiredChecked =>
        /\ FlaggedIff("name", message.f.name.s = "")
        /\ FlaggedIff("count", message.f.count.n = 0)
        /\ FlaggedIff("total", message.f.total.n = 0)
        /\ FlaggedIff("owner", message.f.owner = Undefined)
        /\ FlaggedIff("tags", Len(message.f.tags.xs) = 0)
        /\ FlaggedIff("note", FALSE)

\* A profile whose count is 0 and whose name is set: one violation at
\* [count], none at [name].
RequiredZeroWitness ==
    /\ RequiredChecked
    /\ message.f.count = Num(0)
    /\ message.f.total = Big(5)
    /\ message.f.name = Str("Al")
    /\ Cardinality(ViolationsAt(<<"count">>)) = 1
    /\ ViolationsAt(<<"name">>) = {}
    /\ ViolationsAt(<<"total">>) = {}

\* C5: a required bool field never yields a Required violation, be its
\* value true or false.
RequiredBoolIsNeverFlagged ==
    RequiredChecked => ViolationsAt(<<"active">>) = {}

\* C6: a required enum of value 0 and a required map without entries each
\* yield exactly one violation at [fieldName]; a non-zero enum and a
\* non-empty map yield none.
RequiredFlagsZeroEnumAndEmptyMap ==
    RequiredChecked =>
        /\ FlaggedIff("status", message.f.status.n = 0)
        /\ FlaggedIff("attrs", Len(message.f.attrs.entries) = 0)

(***************************************************************************)
(* Dependency                                                              *)
(***************************************************************************)
\* The presence rule by kind: strings non-empty, numbers of every subtype
\* non-zero, messages non-null, lists and maps non-empty, bools always.
IsSet(value) ==
    CASE value.t = "undefined" -> FALSE
      [] value.t = "string" -> value.s # ""
      [] value.t \in {"number", "bigint"} -> value.n # 0
      [] value.t = "boolean" -> TRUE
      [] value.t = "array" -> Len(value.xs) > 0
      [] value.t = "object" -> Len(value.entries) > 0
      [] OTHER -> TRUE

GoesSchemas == {ColorSettingsSchema, ScheduledEventSchema, DependenciesSchema}

\* validateGoesFields has just run.
GoesChecked == pc = "validateChoiceFields" /\ schema \in GoesSchemas

\* The fields A of the schema that declare (goes).with = B, B a field.
GoesPairs ==
    {<<a, b>> \in (1..Len(schema.fields)) \X (1..Len(schema.fields)) :
        /\ hasOption(schema.fields[a], "goes")
        /\ getOption(schema.fields[a], "goes").with = schema.fields[b].name}

\* C7: a field A with goes.with = B yields exactly one violation at [A]
\* when A is set and B is unset, and none when A is unset or both are set;
\* B's own constraints do not matter and a mutual pair is two such checks.
GoesFlagsSetWithoutTarget ==
    GoesChecked =>
        \A p \in GoesPairs :
            LET A == schema.fields[p[1]]
                B == schema.fields[p[2]]
            IN Cardinality(ViolationsAt(<<A.name>>)) =
                   IF IsSet(FieldValue(message, A)) /\ ~IsSet(FieldValue(message, B))
                   THEN 1 ELSE 0

(***************************************************************************)
(* Range                                                                   *)
(***************************************************************************)
\* v lies in the range of `case`, each side by its own bracket.
InRange(v, case) ==
    /\ IF case.open = "[" THEN case.lo.n <= v ELSE case.lo.n < v
    /\ IF case.close = "]" THEN v <= case.hi.n ELSE v < case.hi.n

\* C8: a value is accepted iff it respects the lower bound (inclusive for
\* `[`, exclusive for `(`) and the upper bound (inclusive for `]`, exclusive
\* for `)`); a rejected singular field yields exactly one violation at
\* [fieldName].
RangeRespectsBrackets ==
    \A case \in RangeCases :
        (pc = "validateDistinctFields" /\ schema = RangeSchema(case)) =>
            /\ parseRange(RangeText(case), case.scalar).ok
            /\ parseRange(RangeText(case), case.scalar).min = case.lo.n
            /\ parseRange(RangeText(case), case.scalar).max = case.hi.n
            /\ IF InRange(message.f.value.n, case)
               THEN violations = <<>>
               ELSE /\ Len(violations) = 1
                    /\ violations[1].fieldPath = <<"value">>

\* The value 24 in [0..24) has been rejected with one violation at [value].
RangeWitness ==
    /\ pc = "validateDistinctFields"
    /\ \E i \in 1..Len(schema.fields) :
           /\ hasOption(schema.fields[i], "range")
           /\ getOption(schema.fields[i], "range") = "[0..24)"
    /\ message.f.value = Num(24)
    /\ Len(violations) = 1
    /\ violations[1].fieldPath = <<"value">>

(***************************************************************************)
(* Min / Max                                                               *)
(***************************************************************************)
\* The thresholds LimitsSchema declares, as numbers.
Limits ==
    {[name |-> "at_least", localName |-> "atLeast", side |-> "min", t |-> 1,
      exclusive |-> FALSE],
     [name |-> "greater", localName |-> "greater", side |-> "min", t |-> 1,
      exclusive |-> TRUE],
     [name |-> "at_most", localName |-> "atMost", side |-> "max", t |-> 1,
      exclusive |-> FALSE],
     [name |-> "less", localName |-> "less", side |-> "max", t |-> 1,
      exclusive |-> TRUE],
     [name |-> "both", localName |-> "both", side |-> "min", t |-> 2,
      exclusive |-> FALSE],
     [name |-> "both", localName |-> "both", side |-> "max", t |-> 0,
      exclusive |-> FALSE]}

\* v breaks the limit.
BreaksLimit(v, limit) ==
    IF limit.side = "min"
    THEN IF limit.exclusive THEN v <= limit.t ELSE v < limit.t
    ELSE IF limit.exclusive THEN v >= limit.t ELSE v > limit.t

\* The violations at [name] raised for the min (resp. max) threshold.
LimitViolations(name, side) ==
    {i \in ViolationsAt(<<name>>) :
        LET text == violations[i].message.withPlaceholders
        IN IF side = "min"
           THEN Includes(text, "at least") \/ Includes(text, "greater than")
           ELSE Includes(text, "at most") \/ Includes(text, "less than")}

LimitsChecked == pc = "validateRangeFields" /\ schema = LimitsSchema

\* C9: a value is flagged for min (max) threshold t iff v < t (v > t), or
\* v <= t (v >= t) when the threshold is exclusive; 0 is checked like any
\* value, and a field with both options gets at most one min and one max
\* violation.
MinMaxFlagsByThreshold ==
    LimitsChecked =>
        /\ \A limit \in Limits :
               Cardinality(LimitViolations(limit.name, limit.side)) =
                   IF BreaksLimit(message.f[limit.localName].n, limit)
                   THEN 1 ELSE 0
        /\ \A i \in 1..Len(violations) :
               \E limit \in Limits : i \in LimitViolations(limit.name, limit.side)

\* at_least = 0 is below min 1, and both = 1 breaks its min 2 and its max 0:
\* one violation for the former, one min and one max violation for the
\* latter.
MinMaxWitness ==
    /\ LimitsChecked
    /\ message.f.atLeast = Num(0)
    /\ message.f.both = Big(1)
    /\ Cardinality(ViolationsAt(<<"at_least">>)) = 1
    /\ Cardinality(LimitViolations("both", "min")) = 1
    /\ Cardinality(LimitViolations("both", "max")) = 1

(***************************************************************************)
(* Distinct                                                                *)
(***************************************************************************)
\* The elements of the list `numbers` of a message.
NumbersOf(msg) == [i \in 1..Len(msg.f.numbers.xs) |-> msg.f.numbers.xs[i].n]

\* The positions that repeat an earlier element, and the first occurrence.
Duplicates(xs) == {k \in 1..Len(xs) : \E j \in 1..(k - 1) : xs[j] = xs[k]}
FirstOccurrence(xs, k) ==
    CHOOSE j \in 1..k : xs[j] = xs[k] /\ \A i \in 1..(j - 1) : xs[i] # xs[k]

DistinctChecked == pc = "validateNestedFields" /\ schema = TagsSchema

\* C10: one violation per element equal to an earlier one (length minus the
\* number of distinct values); each has path [fieldName, duplicateIndex] and
\* carries the value, the index of the first occurrence and the duplicate
\* index; lists of length 0 or 1 yield none.
DistinctFlagsLaterDuplicates ==
    DistinctChecked =>
        LET xs == NumbersOf(message) IN
        /\ Len(violations) = Cardinality(Duplicates(xs))
        /\ Len(violations) = Len(xs) - Cardinality({xs[i] : i \in 1..Len(xs)})
        /\ Len(xs) <= 1 => violations = <<>>
        /\ \A k \in Duplicates(xs) :
               \E i \in 1..Len(violations) :
                   /\ violations[i].fieldPath = <<"numbers", ToString(k - 1)>>
                   /\ violations[i].message.placeholderValue =
                          [value |-> ToString(xs[k]),
                           first_index |-> ToString(FirstOccurrence(xs, k) - 1),
                           duplicate_index |-> ToString(k - 1)]
                   /\ FirstOccurrence(xs, k) < k

\* [1, 2, 1, 3, 2, 4] has yielded two violations, at [numbers, 2] (first
\* occurrence 0) and at [numbers, 4] (first occurrence 1).
DistinctWitness ==
    /\ DistinctChecked
    /\ NumbersOf(message) = <<1, 2, 1, 3, 2, 4>>
    /\ Len(violations) = 2
    /\ violations[1].fieldPath = <<"numbers", "2">>
    /\ violations[1].message.placeholderValue.first_index = "0"
    /\ violations[2].fieldPath = <<"numbers", "4">>
    /\ violations[2].message.placeholderValue.first_index = "1"


(***************************************************************************)
(* Choice                                                                  *)
(***************************************************************************)
\* The oneof `oneof` of the schema is flagged (choice).required = true.
ChoiceRequired(oneof) ==
    "choice" \in DOMAIN oneof.options /\ oneof.options.choice.required = TRUE

\* C11: for every oneof flagged choice.required = true the result of
\* validate holds exactly one violation at [oneofName] when the oneof has no
\* active member, and none for that oneof when a member is active or when
\* choice.required is false.
ChoiceViolationIsEmitted ==
    (Returned /\ schema = PaymentMethodSchema) =>
        \A i \in 1..Len(schema.oneofs) :
            LET oneof == schema.oneofs[i] IN
            Cardinality(ViolationsAt(<<oneof.name>>)) =
                IF ChoiceRequired(oneof) /\ message.f[oneof.localName].case = ""
                THEN 1 ELSE 0


(***************************************************************************)
(* Field paths                                                             *)
(***************************************************************************)
\* A segment that indexes a repeated field: a decimal number.
IsIndex(segment) ==
    /\ Len(segment) > 0
    /\ \A i \in 1..Len(segment) : CharAt(segment, i) \in Digits

\* The fields of `root` named `name`.
FieldsNamed(root, name) ==
    {i \in 1..Len(root.fields) : root.fields[i].name = name}

\* `path` walks from `root`: a field or oneof name, then an index or key
\* into the repeated or map field just named, or a field of the nested
\* schema reached.
RECURSIVE ValidTraversal(_, _)
ValidTraversal(root, path) ==
    IF Len(path) = 0
    THEN TRUE
    ELSE \/ /\ Len(path) = 1
            /\ \E i \in 1..Len(root.oneofs) : root.oneofs[i].name = path[1]
         \/ \E i \in FieldsNamed(root, path[1]) :
                LET field == root.fields[i]
                    isMessage ==
                        \/ field.fieldKind = "message"
                        \/ field.fieldKind = "list" /\ field.listKind = "message"
                        \/ field.fieldKind = "map" /\ field.mapKind = "message"
                IN CASE Len(path) = 1 -> TRUE
                     [] field.fieldKind = "message" ->
                          ValidTraversal(SchemaOf(field.message), Tail(path))
                     [] field.fieldKind \in {"list", "map"} ->
                          /\ field.fieldKind = "list" => IsIndex(path[2])
                          /\ \/ Len(path) = 2
                             \/ /\ isMessage
                                /\ ValidTraversal(SchemaOf(field.message),
                                                  Tail(Tail(path)))
                     [] OTHER -> FALSE

\* C12: every violation validate(rootSchema, message) returns has a field
\* path that is empty or a valid traversal from rootSchema, at every depth.
PathsAreTraversals ==
    Returned =>
        \A i \in 1..Len(violations) :
            ValidTraversal(schema, violations[i].fieldPath)

\* The same for the schemas without a (pattern) on a repeated field.
PathsAreTraversalsButPatternLists ==
    Returned =>
        \A i \in 1..Len(violations) :
            \/ schema = ReadingsSchema /\ Len(violations[i].fieldPath) = 1
            \/ ValidTraversal(schema, violations[i].fieldPath)

\* A returned violation three fields deep.
DeepPathWitness ==
    /\ Returned
    /\ \E i \in 1..Len(violations) :
           violations[i].fieldPath = <<"parent", "links", "0", "name">>

(***************************************************************************)
(* Repeated scalar fields                                                  *)
(***************************************************************************)
\* The element at index i (from 0) of the repeated field breaks its constraint.
Offends(fieldName, element) ==
    CASE fieldName = "names" ->
           element.s # "" /\ ~RegExpTest(NameRegex, "", element.s)
      [] fieldName = "scores" -> element.n < 1 \/ element.n > 2
      [] fieldName = "hours" -> element.n < 1 \/ element.n > 2

\* One violation at [fieldName, i] per offending element, none for the others,
\* and no violation of the field elsewhere.
ElementsFlagged(fieldName) ==
    LET xs == message.f[fieldName].xs
        offending == {i \in 1..Len(xs) : Offends(fieldName, xs[i])}
    IN /\ \A i \in 1..Len(xs) :
              Cardinality(ViolationsAt(<<fieldName, ToString(i - 1)>>)) =
                  IF i \in offending THEN 1 ELSE 0
       /\ Cardinality({i \in 1..Len(violations) :
              Includes(violations[i].fieldPath[1], fieldName)}) =
                  Cardinality(offending)

\* C13: for (pattern), (min)/(max) and (range) on a repeated scalar field each
\* offending element at index i yields its own violation with the two-segment
\* path [fieldName, i], and the other elements yield none.
ElementsHaveOwnViolation ==
    (Returned /\ schema = ReadingsSchema) =>
        /\ ElementsFlagged("names")
        /\ ElementsFlagged("scores")
        /\ ElementsFlagged("hours")

\* The same for (min)/(max) and (range) alone.
NumericElementsHaveOwnViolation ==
    (Returned /\ schema = ReadingsSchema) =>
        /\ ElementsFlagged("scores")
        /\ ElementsFlagged("hours")

\* validatePatternFields has just run on a schema with (pattern) fields only.
PatternChecked ==
    /\ pc = "validateRequiredFieldOption"
    /\ schema \in {ScheduledEventSchema, ReadingsSchema}

\* C14: (pattern) never emits a violation for an empty string, neither for a
\* singular field holding "" nor for an empty-string element of a repeated
\* string field.
PatternSkipsEmptyStrings ==
    PatternChecked =>
        \A i \in 1..Len(violations) :
            violations[i].message.placeholderValue.value # ""

\* The same for the singular field alone.
PatternSkipsEmptySingular ==
    (PatternChecked /\ schema = ScheduledEventSchema) =>
        \A i \in 1..Len(violations) :
            violations[i].message.placeholderValue.value # ""

(***************************************************************************)
(* Repeated calls                                                          *)
(***************************************************************************)
\* Calls with the same schema and message returned the same violations.
ResultsAgree ==
    \A first, second \in results :
        (first.schema = second.schema /\ first.message = second.message) =>
            first.violations = second.violations

Max(S) == IF S = {} THEN 0 ELSE CHOOSE n \in S : \A m \in S : m <= n

\* The nesting depth of a message instance: the longest chain of messages
\* held by messages, directly or in a list or a map.
RECURSIVE NestingDepth(_)
NestingDepth(value) ==
    CASE value.t = "message" ->
           Max({NestingDepth(value.f[name]) +
                    (IF value.f[name].t = "message" THEN 1 ELSE 0) :
                name \in DOMAIN value.f})
      [] value.t = "array" ->
           Max({NestingDepth(value.xs[i]) +
                    (IF value.xs[i].t = "message" THEN 1 ELSE 0) :
                i \in 1..Len(value.xs)})
      [] value.t = "object" ->
           Max({NestingDepth(value.entries[i].value) +
                    (IF value.entries[i].value.t = "message" THEN 1 ELSE 0) :
                i \in 1..Len(value.entries)})
      [] OTHER -> 0

\* The nested calls of validate in progress.
RecursionDepth == IF Len(stack) = 0 THEN 0 ELSE Len(stack) - 1

\* C17: validate terminates and returns its violation list for every finite
\* message, also under a schema that nests itself; the recursion descends
\* only through set nested values, never deeper than the message is nested.
ValidateTerminates ==
    /\ <>Returned
    /\ [](RecursionDepth <= NestingDepth(message))
    /\ [](Returned => violations = validate(optionRegistry, schema, message))

\* validate is MaxDepth calls deep in a folder nested MaxDepth + 1 deep.
TerminationWitness ==
    /\ schema = FolderSchema
    /\ RecursionDepth = MaxDepth + 1
    /\ NestingDepth(message) = MaxDepth + 1

(***************************************************************************)
(* Rendering                                                               *)
(***************************************************************************)
\* The keys of the map whose placeholder {key} is left in the rendered text.
LeftPlaceholders(template) ==
    {key \in DOMAIN template.placeholderValue :
        Includes(formatTemplateString(template), "{" \o key \o "}")}

\* C18: for every violation validate produces, formatTemplateString replaces
\* each placeholder {name} of the template by the value recorded for the
\* name, so that no placeholder whose name is a key of the map remains.
PlaceholdersAreReplaced ==
    Returned =>
        \A i \in 1..Len(violations) :
            LeftPlaceholders(violations[i].message) = {}

\* The same for a template written with ${name}, the form the function
\* looks for.
DollarPlaceholdersAreReplaced ==
    Returned =>
        \A i \in 1..Len(violations) :
            formatTemplateString(
                [withPlaceholders |-> "Field ${field} has invalid value: ${value}",
                 placeholderValue |-> [field |-> "email", value |-> "invalid@"]])
                = "Field email has invalid value: invalid@"

(***************************************************************************)
(* Distinct map values                                                     *)
(***************************************************************************)
\* Two entries of the map hold equal values.
HasEqualValues(map) ==
    \E i, j \in 1..Len(map.entries) :
        i # j /\ map.entries[i].value = map.entries[j].value

\* C19: (distinct) = true on a map field enforces unique values: a map with
\* two entries of equal value yields a Distinct violation, a map whose values
\* are pairwise different yields none.
DistinctFlagsEqualMapValues ==
    (Returned /\ schema = PreferencesSchema) =>
        (Len(violations) > 0 <=> HasEqualValues(message.f.preferences))

\* The half that holds: no violation for pairwise different values.
DistinctAcceptsDifferentMapValues ==
    (Returned /\ schema = PreferencesSchema) =>
        (~HasEqualValues(message.f.preferences) => Len(violations) = 0)

(***************************************************************************)
(* Unsupported options                                                     *)
(***************************************************************************)
\* The schema carries an option of the kind that needs state across calls.
CarriesSetOnce(root) ==
    \E i \in 1..Len(root.fields) : hasOption(root.fields[i], "set_once")

\* C20: a constraint that needs state across calls (set_once) is never
\* silently accepted: validate does not return an empty list for a schema
\* that carries it (its lookup or registration has ended in an error).
SetOnceIsNotSilentlyAccepted ==
    CarriesSetOnce(schema) => ~(Returned /\ violations = <<>>)

\* The lookup of set_once yields undefined, as for any name not registered.
SetOnceIsNotRegistered ==
    ~getRegisteredOption(optionRegistry, "set_once")

(***************************************************************************)
(* Order of the validators                                                 *)
(***************************************************************************)
\* The validators in the order of the specification.
ValidatorOrder ==
    <<"validateRequiredFields", "validatePatternFields",
      "validateRequiredFieldOption", "validateMinMaxFields",
      "validateRangeFields", "validateDistinctFields", "validateNestedFields",
      "validateGoesFields", "validateChoiceFields">>

\* What the validator `name` finds on its own for the call in progress.
FoundBy(name) ==
    CASE name = "validateRequiredFields" ->
           validateRequiredFields(optionRegistry, schema, message)
      [] name = "validatePatternFields" ->
           validatePatternFields(optionRegistry, schema, message)
      [] name = "validateRequiredFieldOption" ->
           validateRequiredFieldOption(optionRegistry, schema, message)
      [] name = "validateMinMaxFields" ->
           validateMinMaxFields(optionRegistry, schema, message)
      [] name = "validateRangeFields" ->
           validateRangeFields(optionRegistry, schema, message)
      [] name = "validateDistinctFields" ->
           validateDistinctFields(optionRegistry, schema, message)
      [] name = "validateNestedFields" ->
           validateNestedFields(optionRegistry, schema, message)
      [] name = "validateGoesFields" ->
           validateGoesFields(optionRegistry, schema, message)
      [] name = "validateChoiceFields" ->
           validateChoiceFields(optionRegistry, schema, message)

\* The validators that have run when the next one is `next`.
DoneBefore(next) ==
    IF next = "return"
    THEN Len(ValidatorOrder)
    ELSE (CHOOSE n \in 1..Len(ValidatorOrder) : ValidatorOrder[n] = next) - 1

\* The list is made of the groups of the validators that have run, one
\* group per validator, in the order of the specification.
GroupedInOrder ==
    violations = Flatten([n \in 1..DoneBefore(pc) |-> FoundBy(ValidatorOrder[n])])

\* C21: the violations of one nesting level are grouped by validator in the
\* order Required, Pattern, FieldCombination, Min/Max, Range, Distinct,
\* Recurse, Dependency, Choice, and every validator only appends: the prefix
\* written by the earlier validators is unchanged.
ViolationsAreGroupedInOrder ==
    /\ []GroupedInOrder
    /\ [][/\ Len(violations') >= Len(violations)
          /\ SubSeq(violations', 1, Len(violations)) = violations]_vars

\* validate returned the groups of three validators, one after the other.
OrderWitness ==
    /\ Returned
    /\ schema = ReadingsSchema
    /\ Len(FoundBy("validatePatternFields")) > 0
    /\ Len(FoundBy("validateMinMaxFields")) > 0
    /\ Len(FoundBy("validateRangeFields")) > 0

(***************************************************************************)
(* Independence of the validators                                          *)
(***************************************************************************)
\* The names of the validators.
Validators == {ValidatorOrder[n] : n \in 1..Len(ValidatorOrder)}

\* The calls the validators are permuted on.
PermutedInputs ==
    CallInputs \cup {<<ReadingsSchema, Readings(<<"mon">>, <<0>>)>>}

\* validate with its nine calls in any order: pc is the set of the
\* validators that have run.
InitPermuted ==
    /\ optionRegistry \in {RegistryWithRequiredField, RegistryWithChoice}
    /\ \E input \in PermutedInputs :
           /\ schema = input[1]
           /\ message = input[2]
    /\ violations = <<>>
    /\ pc = {}
    /\ results = {}
    /\ stack = <<>>

\* A validator that stops at the violations found by the ones before it.
RunUnlessFound(name) ==
    /\ name \notin pc
    /\ violations' = IF violations = <<>> THEN FoundBy(name) ELSE violations
    /\ pc' = pc \cup {name}
    /\ UNCHANGED <<optionRegistry, schema, message, results, stack>>

\* The validator `name` runs: it is given the schema, the message and the
\* list, and pushes what it finds.
RunValidator(name) ==
    /\ name \notin pc
    /\ violations' = violations \o FoundBy(name)
    /\ pc' = pc \cup {name}
    /\ UNCHANGED <<optionRegistry, schema, message, results, stack>>

NextPermuted == \E name \in Validators : RunValidator(name)

SpecPermuted == InitPermuted /\ [][NextPermuted]_vars

\* The violations of a list, each with the number of times it occurs.
BagOf(list) ==
    [v \in {list[i] : i \in DOMAIN list} |->
        Cardinality({i \in DOMAIN list : list[i] = v})]

SetByKind(field, value) ==
    CASE field.fieldKind = "scalar" /\ field.scalar = ScalarType.STRING ->
           value.t = "string" /\ value.s # ""
      [] field.fieldKind = "scalar" /\ field.scalar = ScalarType.BYTES ->
           value.t = "bytes" /\ value.len > 0
      [] field.fieldKind = "scalar" /\ field.scalar = ScalarType.BOOL -> TRUE
      [] field.fieldKind = "scalar" ->
           value.t \in {"number", "bigint"} /\ value.n # 0
      [] field.fieldKind = "message" -> value.t # "undefined"
      [] field.fieldKind = "enum" -> value.t = "number" /\ value.n # 0
      [] field.fieldKind = "list" -> value.t = "array" /\ Len(value.xs) > 0
      [] field.fieldKind = "map" -> value.t = "object" /\ Len(value.entries) > 0

\* C23: in a field-combination expression an atom naming a schema field is
\* true exactly when the field is set by the rule of its kind: text and
\* bytes non-empty, every numeric subtype (64-bit integers carried as bigint
\* included) non-zero, bool always, message non-null, enum non-zero, list
\* and map with at least one element.
AtomIsPresenceByKind ==
    (pc = "validateMinMaxFields" /\ optionRegistry = RegistryWithRequiredField) =>
        \A i \in 1..Len(AccountFields) :
            schema = AccountSchema(AccountFields[i].name) =>
                /\ isFieldSet(message, AccountFields[i].name, schema)
                       = SetByKind(AccountFields[i],
                                   FieldValue(message, AccountFields[i]))
                /\ (violations = <<>>)
                       = SetByKind(AccountFields[i],
                                   FieldValue(message, AccountFields[i]))

\* The same for the kinds other than bytes and 64-bit integers.
AtomIsPresenceButBytesAndBigint ==
    (pc = "validateMinMaxFields" /\ optionRegistry = RegistryWithRequiredField) =>
        \A i \in 1..Len(AccountFields) :
            (/\ schema = AccountSchema(AccountFields[i].name)
             /\ AccountFields[i].name \notin {"avatar", "balance"}) =>
                /\ isFieldSet(message, AccountFields[i].name, schema)
                       = SetByKind(AccountFields[i],
                                   FieldValue(message, AccountFields[i]))
                /\ (violations = <<>>)
                       = SetByKind(AccountFields[i],
                                   FieldValue(message, AccountFields[i]))

(***************************************************************************)
(* Presence in (goes)                                                      *)
(***************************************************************************)
\* The fields (goes) judges: the declaring fields and their targets.
GoesJudged(root) ==
    {i \in 1..Len(root.fields) :
        \/ hasOption(root.fields[i], "goes")
        \/ \E j \in 1..Len(root.fields) :
               /\ hasOption(root.fields[j], "goes")
               /\ getOption(root.fields[j], "goes").with = root.fields[i].name}

\* C24: (goes) judges the declaring field and its target by the presence
\* rule of the kinds: text non-empty, numbers (bigint included) non-zero,
\* bool always, message non-null, enum non-zero, list and map with at least
\* one element, so that an empty list or map target counts as unset.
GoesJudgesByKind ==
    (Returned /\ schema = DependenciesSchema) =>
        \A i \in GoesJudged(schema) :
            goesIsFieldSet(FieldValue(message, schema.fields[i]))
                = SetByKind(schema.fields[i], FieldValue(message, schema.fields[i]))

\* The same for the fields that are neither 64-bit integers nor lists.
GoesJudgesTextNumberAndMessage ==
    (Returned /\ schema = DependenciesSchema) =>
        \A i \in GoesJudged(schema) :
            (/\ schema.fields[i].fieldKind # "list"
             /\ schema.fields[i].scalar \notin {ScalarType.INT64}) =>
                goesIsFieldSet(FieldValue(message, schema.fields[i]))
                    = SetByKind(schema.fields[i],
                                FieldValue(message, schema.fields[i]))

(***************************************************************************)
(* (goes) with a target the type does not have                             *)
(***************************************************************************)
\* The violations at [name] whose message names `target`.
ViolationsNaming(name, target) ==
    {i \in ViolationsAt(<<name>>) :
        Includes(violations[i].message.withPlaceholders, target)}

\* C25: when goes.with names a field the schema does not have, validate
\* returns exactly one violation at [fieldName], whose message names the
\* missing target, for a declaring field that is set.
DanglingTargetIsReported ==
    (Returned /\ schema = DanglingSchema) =>
        \A i \in 1..Len(schema.fields) :
            SetByKind(schema.fields[i], FieldValue(message, schema.fields[i])) =>
                /\ Cardinality(ViolationsAt(<<schema.fields[i].name>>)) = 1
                /\ ViolationsNaming(schema.fields[i].name, "nowhere")
                       = ViolationsAt(<<schema.fields[i].name>>)

\* The same for the text field alone.
DanglingTargetOfTextIsReported ==
    (Returned /\ schema = DanglingSchema /\ message.f.note # Str("")) =>
        /\ Cardinality(ViolationsAt(<<"note">>)) = 1
        /\ ViolationsNaming("note", "nowhere") = ViolationsAt(<<"note">>)

(***************************************************************************)
(* Malformed ranges                                                        *)
(***************************************************************************)
\* C26: when the range text of a field fails to parse (a malformed or
\* missing bracket, not exactly one `..`, a bound that is no number, or
\* min > max), validate returns no violation for the field, whatever its
\* value, singular or repeated: the field is unconstrained.
MalformedRangeIsUnconstrained ==
    \A rangeStr \in MalformedRanges :
        (pc = "validateDistinctFields" /\ schema = GaugeSchema(rangeStr)) =>
            /\ violations = <<>>
            /\ \A i \in 1..Len(schema.fields) :
                   ~parseRange(rangeStr, schema.fields[i].scalar).ok

\* The range validator has run, with (range) registered, on a message whose
\* values lie between the reversed bounds of "[5..1]" and on one whose
\* values lie outside them.
MalformedRangeWitness ==
    /\ pc = "validateDistinctFields"
    /\ getRegisteredOption(optionRegistry, "range")
    /\ schema = GaugeSchema("[5..1]")
    /\ message.f.level = Num(9)
    /\ message.f.samples = Arr(<<Num(0), Num(9)>>)

(***************************************************************************)
(* Malformed regex                                                         *)
(***************************************************************************)
\* validatePatternFields has just run on a handle.
HandleChecked == pc = "validateRequiredFieldOption" /\ schema = HandleSchema

UnknownAtomYields(expression, holds) ==
    (Returned /\ schema = ExpressionSchema(expression)) =>
        /\ evaluateExpression(expression, message, schema) = holds
        /\ Cardinality(MessageLevelViolations) = IF holds THEN 0 ELSE 1

\* C28: an atom that names a field absent from the schema evaluates as not
\* set: `unknown | b` has the value of b's presence, and `unknown & b` is
\* false for every message and always yields the message-level violation.
UnknownAtomIsUnset ==
    /\ UnknownAtomYields("unknown | family_name", message.f.familyName # Str(""))
    /\ UnknownAtomYields("unknown & family_name", FALSE)

\* The same where (required_field) is a registered option.
UnknownAtomIsUnsetWhereRegistered ==
    getRegisteredOption(optionRegistry, "required_field") => UnknownAtomIsUnset

(***************************************************************************)
(* evaluateExpression on every token sequence                              *)
(***************************************************************************)
\* Longest token sequence given to evaluateExpression.
MaxTokens == 4

\* The tokens: two field names, the parentheses and the operators.
Tokens == {"given_name", "family_name", "(", ")", "|", "&"}

\* The text of a token sequence, its tokens separated by blanks.
RECURSIVE Spaced(_)
Spaced(tokens) ==
    IF tokens = <<>> THEN ""
    ELSE IF Len(tokens) = 1 THEN Head(tokens)
    ELSE Head(tokens) \o " " \o Spaced(Tail(tokens))

\* One call of evaluateExpression: `stack` holds the tokens the expression
\* was written from, `results` the value returned.
InitEvaluate ==
    /\ optionRegistry = RegistryWithRequiredField
    /\ stack \in SeqsUpTo(Tokens, MaxTokens)
    /\ schema = ExpressionSchema(Spaced(stack))
    /\ message \in PersonNameMessages
    /\ violations = <<>>
    /\ pc = "evaluateExpression"
    /\ results = {}

Evaluate ==
    /\ pc = "evaluateExpression"
    /\ results' = {evaluateExpression(Spaced(stack), message, schema)}
    /\ pc' = "return"
    /\ UNCHANGED <<optionRegistry, schema, message, violations, stack>>

NextEvaluate == Evaluate

SpecEvaluate == InitEvaluate /\ [][NextEvaluate]_vars

\* The tokens the top-level parse has read when it stops.
TokensRead ==
    SubSeq(stack, 1, parseOr(tokenize(Spaced(stack)), 1, message, schema).index - 1)

\* The call returned `value` when the tokens were `tokens`.
EvaluatesTo(tokens, value) ==
    stack = tokens => results = {value}

\* C29: evaluateExpression returns a truth value on every token sequence;
\* the tokens after the point where the top-level parse stops do not affect
\* the result (`a b` and `a ) | b` are the presence of a); a missing operand
\* is false (`a |` is a, `a &` is false) and a missing closing parenthesis
\* is tolerated.
EvaluationIgnoresTheRest ==
    pc = "return" =>
        /\ results \in {{TRUE}, {FALSE}}
        /\ tokenize(Spaced(stack)) = stack
        /\ results = {evaluateExpression(Spaced(TokensRead), message, schema)}
        /\ EvaluatesTo(<<"given_name", "family_name">>,
                       NameIsSet(message, "given_name"))
        /\ EvaluatesTo(<<"given_name", ")", "|", "family_name">>,
                       NameIsSet(message, "given_name"))
        /\ EvaluatesTo(<<"given_name", "|">>, NameIsSet(message, "given_name"))
        /\ EvaluatesTo(<<"given_name", "&">>, FALSE)
        /\ EvaluatesTo(<<"(", "given_name">>, NameIsSet(message, "given_name"))
        /\ EvaluatesTo(<<"(", "given_name", "|", "family_name">>,
                       \/ NameIsSet(message, "given_name")
                       \/ NameIsSet(message, "family_name"))

\* `a ) | b` has been evaluated to false on a message with b set and a unset:
\* the tokens after the unmatched parenthesis were not read.
IgnoredRestWitness ==
    /\ pc = "return"
    /\ stack = <<"given_name", ")", "|", "family_name">>
    /\ message.f.givenName = Str("")
    /\ message.f.familyName = Str("Lee")
    /\ results = {FALSE}
    /\ Len(TokensRead) = 1

(***************************************************************************)
(* The type a violation names                                              *)
(***************************************************************************)
\* The type of the message that directly contains the field `path` ends at,
\* walking from `root`: an index or key after a list or map field stays in
\* the message that holds the field.
RECURSIVE ContainerType(_, _)
ContainerType(root, path) ==
    IF Len(path) <= 1 \/ FieldsNamed(root, path[1]) = {}
    THEN root.typeName
    ELSE LET field == root.fields[CHOOSE i \in FieldsNamed(root, path[1]) : TRUE]
         IN CASE field.fieldKind = "message" ->
                   ContainerType(SchemaOf(field.message), Tail(path))
              [] field.fieldKind \in {"list", "map"} /\ Len(path) > 2 ->
                   ContainerType(SchemaOf(field.message), Tail(Tail(path)))
              [] OTHER -> root.typeName

\* The list is `expected` entry by entry: a parent-level entry is of the
\* type under validation, a re-emitted one is the nested violation with
\* only its path changed.
ReemittedAs(expected) ==
    /\ Len(violations) = Len(expected)
    /\ \A i \in 1..Len(violations) :
           IF expected[i].parent
           THEN violations[i].typeName = schema.typeName
           ELSE violations[i] = [expected[i].violation
                                    EXCEPT !.fieldPath = expected[i].path]

====
